---- MODULE Spec2Model ----
(***************************************************************************)
(* A model of the syllabus-sync extraction pipeline: the date helpers of   *)
(* DateUtils.js, the flat-table and timeline row extractors, the final     *)
(* clean-up (workbook filter, removeDuplicateAssignments, sort by due      *)
(* date) and the processFiles handler of SyllabusSyncApp.js.               *)
(*                                                                         *)
(* JavaScript values are tagged records.  A string is a sequence of        *)
(* tokens (words, integer literals, date literals); the JavaScript string  *)
(* it stands for is the tokens rendered and joined by single blanks.       *)
(* A calendar date is a triple <<year, month, day>> (local midnight).      *)
(***************************************************************************)
EXTENDS Integers, Sequences, FiniteSets, TLC

VARIABLES
  files,          \* useState files: the uploaded File objects, in order
  extractedData,  \* useState extractedData
  isProcessing,   \* useState isProcessing
  error,          \* useState error: Null or the lines of the message
  pc,             \* position of the processFiles run: "idle" or "loop"
  fileIdx,        \* index into files of the file being awaited
  allAssignments, \* the list processFiles accumulates
  processingErrors, \* the per-file messages of the second processFiles
  runFiles,       \* the files array the running processFiles closed over
  variant,        \* which component is mounted: "app" or "alt"
  log,            \* history: what each file of the running batch came to
  input,          \* argument of the pure function under test
  out1,           \* its result
  out2,           \* result of a second application
  step            \* position of a pure-function run

vars == <<files, extractedData, isProcessing, error, pc, fileIdx,
          allAssignments, processingErrors, runFiles, variant, log,
          input, out1, out2, step>>

appVars == <<files, extractedData, isProcessing, error, pc, fileIdx,
             allAssignments, processingErrors, runFiles, variant, log>>

funVars == <<input, out1, out2, step>>

(***************************************************************************)
(* Bounds of the model.                                                    *)
(***************************************************************************)
MaxFiles == 2
MaxRows == 2
MaxLen == 3

(***************************************************************************)
(* JavaScript values.                                                      *)
(***************************************************************************)
Undef == [t |-> "undefined"]
Null == [t |-> "null"]
Str(w) == [t |-> "string", w |-> w]
Num(n) == [t |-> "number", n |-> n]
Bool(b) == [t |-> "boolean", b |-> b]
DateObj(d) == [t |-> "date", d |-> d]
\* an array
Arr(items) == [t |-> "array", items |-> items]
\* a workbook of the xlsx library: its sheets, in SheetNames order
Workbook(sheets) == [t |-> "object", SheetNames |-> Arr(sheets)]
\* an object JSON.stringify cannot serialise (a cycle, a BigInt cell)
Cyclic == [t |-> "object", cyclic |-> TRUE]

\* the Date value "Invalid Date"
NaD == <<0, 0, 0>>

\* tokens of a string
W(s) == [k |-> "w", s |-> s]
N(n) == [k |-> "n", n |-> n]
D(m, d, y, pad) == [k |-> "d", m |-> m, d |-> d, y |-> y, pad |-> pad]

EmptyStr == Str(<<>>)
Word(s) == Str(<<W(s)>>)

Pad2(n) == IF n < 10 THEN "0" \o ToString(n) ELSE ToString(n)

RenderTok(tok) ==
  CASE tok.k = "w" -> tok.s
    [] tok.k = "n" -> ToString(tok.n)
    [] tok.k = "d" ->
         IF tok.pad
           THEN Pad2(tok.m) \o "/" \o Pad2(tok.d) \o "/" \o ToString(tok.y)
           ELSE ToString(tok.m) \o "/" \o ToString(tok.d) \o "/" \o ToString(tok.y)

RECURSIVE Join(_)
Join(w) ==
  IF w = <<>> THEN ""
  ELSE IF Len(w) = 1 THEN RenderTok(w[1])
  ELSE RenderTok(w[1]) \o " " \o Join(Tail(w))

\* ToString of the language: `${v}` and String(v)
JSToString(v) ==
  CASE v.t = "string" -> Join(v.w)
    [] v.t = "number" -> ToString(v.n)
    [] v.t = "boolean" -> IF v.b THEN "true" ELSE "false"
    [] v.t = "undefined" -> "undefined"
    [] v.t = "null" -> "null"
    [] v.t = "date" -> IF v.d = NaD THEN "Invalid Date" ELSE "Date " \o ToString(v.d)
    [] v.t = "object" -> "[object Object]"
    [] v.t = "array" -> "array"

\* ToBoolean of the language
Truthy(v) ==
  CASE v.t = "string" -> v.w # <<>>
    [] v.t = "number" -> v.n # 0
    [] v.t = "boolean" -> v.b
    [] v.t = "undefined" -> FALSE
    [] v.t = "null" -> FALSE
    [] v.t = "date" -> TRUE
    [] v.t = "object" -> TRUE
    [] v.t = "array" -> TRUE

\* a || b
OrElse(a, b) == IF Truthy(a) THEN a ELSE b

(***************************************************************************)
(* Calendar arithmetic (proleptic Gregorian, days since 1970-01-01).       *)
(***************************************************************************)
\* days of the civil date, from the year counted from March, the month
\* counted from March and the day
DaysOfEra(era, yoe, doy) ==
  era * 146097 + yoe * 365 + yoe \div 4 - yoe \div 100 + doy - 719468

DaysOfShifted(yy, mp, d) ==
  DaysOfEra(yy \div 400, yy % 400, (153 * mp + 2) \div 5 + d - 1)

DaysFromCivil(y, m, d) ==
  DaysOfShifted(IF m <= 2 THEN y - 1 ELSE y, (m + 9) % 12, d)

\* the civil date of a day number, step by step: era, day of era, year of
\* era, day of year, month
CivilOfMonth(y, m, d) == <<IF m <= 2 THEN y + 1 ELSE y, m, d>>

CivilOfShifted(y, doy, mp) ==
  CivilOfMonth(y, IF mp < 10 THEN mp + 3 ELSE mp - 9, doy - (153 * mp + 2) \div 5 + 1)

CivilOfYearDay(y, doy) == CivilOfShifted(y, doy, (5 * doy + 2) \div 153)

CivilOfYear(era, doe, yoe) ==
  CivilOfYearDay(yoe + era * 400, doe - (365 * yoe + yoe \div 4 - yoe \div 100))

CivilOfEra(era, doe) ==
  CivilOfYear(era, doe,
              (doe - doe \div 1460 + doe \div 36524 - doe \div 146096) \div 365)

CivilFromDays(z) == CivilOfEra((z + 719468) \div 146097, (z + 719468) % 146097)

DateLT(a, b) ==
  \/ a[1] < b[1]
  \/ a[1] = b[1] /\ a[2] < b[2]
  \/ a[1] = b[1] /\ a[2] = b[2] /\ a[3] < b[3]

\* the day the extraction runs on: new Date() of the browser
Today == <<2026, 11, 3>>
CurrentYear == Today[1]

\* new Date(year, monthIndex, day): out-of-range fields roll over
MakeDate(y, m, d) == CivilFromDays(DaysFromCivil(y, m, 1) + d - 1)

\* Date.prototype.setFullYear(y)
SetFullYear(date, y) == MakeDate(y, date[2], date[3])

Abs(x) == IF x < 0 THEN -x ELSE x

(***************************************************************************)
(* DateUtils.js                                                            *)
(***************************************************************************)
\* String(dateValue).trim() as tokens
StringTokens(v) ==
  IF v.t = "string" THEN v.w ELSE <<W(JSToString(v))>>

\* new Date(s) for a string s.  The browser's parser skips unrecognised
\* words in front of the first number and rejects a word that follows one,
\* so a string is a date exactly when it is words followed by one date
\* literal with month 1..12 and day 1..31, or by one number: a number from 1
\* to 12 is a month of 2001, a number that is no day of a month is a year.
\* The parser reads a year below 50 as 2000 + y and a year from 50 to 99 as
\* 1900 + y.
EngineYear(y) == IF y < 50 THEN y + 2000 ELSE IF y < 100 THEN y + 1900 ELSE y

LastToken(tok) ==
  CASE tok.k = "d" ->
         IF tok.m \in 1..12 /\ tok.d \in 1..31
           THEN MakeDate(EngineYear(tok.y), tok.m, tok.d)
         ELSE NaD
    [] tok.k = "n" ->
         IF tok.n \in 1..12 THEN <<2001, tok.n, 1>>
         ELSE IF tok.n \in 13..31 THEN NaD
         ELSE IF tok.n <= 275760 THEN <<EngineYear(tok.n), 1, 1>>
         ELSE NaD
    [] OTHER -> NaD

DirectParse(w) ==
  IF w # <<>> /\ \A i \in 1..(Len(w) - 1) : w[i].k = "w"
    THEN LastToken(w[Len(w)])
  ELSE NaD

\* index of the first date literal of a string, 0 when there is none
FirstDateTok(w) ==
  IF \E i \in 1..Len(w) : w[i].k = "d"
  THEN CHOOSE i \in 1..Len(w) :
         /\ w[i].k = "d"
         /\ \A j \in 1..(i - 1) : w[j].k # "d"
  ELSE 0

\* new Date(excelEpoch.getTime() + n * millisecondsPerDay); a time value
\* beyond 100,000,000 days from 1970 is Invalid Date
DateOfDays(z) ==
  IF z > 100000000 \/ z < -100000000 THEN NaD ELSE CivilFromDays(z)

SerialToDate(n) == DateOfDays(DaysFromCivil(1899, 12, 30) + n)

TwoDigitYear(y) == IF y < 100 THEN (IF y < 50 THEN y + 2000 ELSE y + 1900) ELSE y

\* the year sanity check on a date the browser parsed
SaneYear(parsed, currentYear) ==
  IF Abs(parsed[1] - currentYear) > 5
    THEN DateObj(SetFullYear(parsed, currentYear))
  ELSE DateObj(parsed)

\* the month/day/year pattern, on the first date literal of the string
PatternDate(tok) == DateObj(MakeDate(TwoDigitYear(tok.y), tok.m, tok.d))

ParseTokens(w, parsed, i, currentYear) ==
  IF parsed # NaD THEN SaneYear(parsed, currentYear)
  ELSE IF i # 0 THEN PatternDate(w[i])
  ELSE Null

ParseString(w, currentYear) ==
  ParseTokens(w, DirectParse(w), FirstDateTok(w), currentYear)

parseDate(dateValue, currentYear) ==
  IF ~Truthy(dateValue) THEN Null
  ELSE IF dateValue.t = "date" THEN dateValue
  ELSE IF dateValue.t = "number" THEN DateObj(SerialToDate(dateValue.n))
  ELSE ParseString(StringTokens(dateValue), currentYear)

\* /^\d{1,2}\/\d{1,2}\/\d{4}$/.test(date)
IsFormatted(v) ==
  /\ v.t = "string"
  /\ Len(v.w) = 1
  /\ v.w[1].k = "d"
  /\ v.w[1].y \in 1000..9999

\* date instanceof Date ? date : parseDate(date)
AsDate(date) == IF date.t = "date" THEN date ELSE parseDate(date, CurrentYear)

FormatDateObj(dateObj) ==
  IF dateObj = Null \/ dateObj.d = NaD THEN EmptyStr
  ELSE Str(<<D(dateObj.d[2], dateObj.d[3], dateObj.d[1], FALSE)>>)

formatDate(date) ==
  IF ~Truthy(date) THEN EmptyStr
  ELSE IF IsFormatted(date) THEN date
  ELSE FormatDateObj(AsDate(date))

\* a Date value with a time of day, in minutes after local midnight
DateAt(d, min) == [t |-> "date", d |-> d, min |-> min]

MinuteOf(dateObj) == IF "min" \in DOMAIN dateObj THEN dateObj.min ELSE 0

\* dateObj < today, today being at local midnight
BeforeMidnight(dateObj, today) ==
  \/ DateLT(dateObj.d, today)
  \/ dateObj.d = today /\ MinuteOf(dateObj) < 0

\* every date on or before today counts as past
NotAfterToday(dateObj) ==
  dateObj # Null /\ dateObj.d # NaD /\ ~DateLT(Today, dateObj.d)

DateObjInPast(dateObj) ==
  IF dateObj = Null \/ dateObj.d = NaD THEN FALSE
  ELSE IF dateObj.d = Today THEN FALSE
  ELSE BeforeMidnight(dateObj, Today)

isDateInPast(date) ==
  IF ~Truthy(date) THEN FALSE ELSE DateObjInPast(AsDate(date))

\* new Date(v).getTime(), counted in days: [nan |-> TRUE] is NaN
TimeOfDate(d) ==
  IF d = NaD THEN [nan |-> TRUE, v |-> 0]
  ELSE [nan |-> FALSE, v |-> DaysFromCivil(d[1], d[2], d[3])]

TimeOf(v) ==
  IF v.t = "date" THEN TimeOfDate(v.d)
  ELSE IF v.t = "string" THEN TimeOfDate(DirectParse(v.w))
  ELSE [nan |-> TRUE, v |-> 0]

(***************************************************************************)
(* Assignment records.                                                     *)
(***************************************************************************)
Rec(title, dueDate, course, description, type, fileName) ==
  [title |-> title, dueDate |-> dueDate, course |-> course,
   description |-> description, type |-> type, fileName |-> fileName]

\* row[col]
Get(row, col) == IF col \in DOMAIN row THEN row[col] ELSE Undef

\* Array.prototype.reverse
RECURSIVE Reverse(_)
Reverse(s) == IF s = <<>> THEN <<>> ELSE Append(Reverse(Tail(s)), Head(s))

(***************************************************************************)
(* The final clean-up of processFiles: removeDuplicateAssignments and the  *)
(* sort by due date.                                                        *)
(***************************************************************************)
DedupKey(assignment) ==
  JSToString(assignment.title) \o "-" \o JSToString(assignment.dueDate)
    \o "-" \o JSToString(assignment.course)

\* the key of the inline clean-up of the earlier processFiles
InlineKey(item) ==
  JSToString(item.title) \o "-" \o JSToString(item.type) \o "-"
    \o JSToString(item.dueDate) \o "-" \o JSToString(item.course)

KeyOf(item, withType) == IF withType THEN InlineKey(item) ELSE DedupKey(item)

\* the loop over the list with the Set of keys seen so far
RECURSIVE DedupLoop(_, _, _, _)
DedupLoop(rest, seen, unique, withType) ==
  IF rest = <<>> THEN unique
  ELSE IF KeyOf(Head(rest), withType) \in seen
    THEN DedupLoop(Tail(rest), seen, unique, withType)
  ELSE DedupLoop(Tail(rest), seen \cup {KeyOf(Head(rest), withType)},
                 Append(unique, Head(rest)), withType)

\* the loop run from the end of the list, which keeps of every key its last
\* record: the order of the loop is what the first-occurrence rule rests on
KeepLastOccurrence(assignments) ==
  Reverse(DedupLoop(Reverse(assignments), {}, <<>>, FALSE))

removeDuplicateAssignments(assignments) ==
  DedupLoop(assignments, {}, <<>>, FALSE)

\* the comparator (a, b) => new Date(a.dueDate) - new Date(b.dueDate);
\* the sort reads a NaN result as 0
Difference(x, y) == IF x.nan \/ y.nan THEN 0 ELSE x.v - y.v

CompareDue(a, b) == Difference(TimeOf(a.dueDate), TimeOf(b.dueDate))

\* one step of the run detection: the order of s[k+1] against s[k]
RECURSIVE RunLength(_, _, _)
RunStep(s, k, desc, order) ==
  IF desc /\ order >= 0 THEN k
  ELSE IF ~desc /\ order < 0 THEN k
  ELSE RunLength(s, k + 1, desc)

\* length of the initial run of s (Len(s) >= 2), descending or not
RunLength(s, k, desc) ==
  IF k = Len(s) THEN k ELSE RunStep(s, k, desc, CompareDue(s[k + 1], s[k]))

\* binary search of the place of pivot in the sorted prefix s[left+1..right]
RECURSIVE BinarySearch(_, _, _, _)
SearchStep(s, pivot, left, right, mid) ==
  IF CompareDue(pivot, s[mid + 1]) < 0
    THEN BinarySearch(s, pivot, left, mid)
  ELSE BinarySearch(s, pivot, mid + 1, right)

BinarySearch(s, pivot, left, right) ==
  IF left >= right THEN left
  ELSE SearchStep(s, pivot, left, right, left + ((right - left) \div 2))

\* s with s[start+1] moved to position left+1
InsertAt(s, start, left) ==
  SubSeq(s, 1, left) \o <<s[start + 1]>> \o SubSeq(s, left + 1, start)
    \o SubSeq(s, start + 2, Len(s))

\* binary insertion of s[start+1..Len(s)] into the sorted prefix
RECURSIVE BinaryInsertionSort(_, _)
BinaryInsertionSort(s, start) ==
  IF start >= Len(s) THEN s
  ELSE BinaryInsertionSort(
         InsertAt(s, start, BinarySearch(s, s[start + 1], 0, start)), start + 1)

\* the initial run made ascending
MakeRun(s, desc, run) ==
  IF desc THEN Reverse(SubSeq(s, 1, run)) \o SubSeq(s, run + 1, Len(s)) ELSE s

SortRun(s, desc, run) == BinaryInsertionSort(MakeRun(s, desc, run), run)

SortFrom(s, desc) == SortRun(s, desc, RunLength(s, 2, desc))

\* a reordering that is not a sort: applied twice it undoes itself
LastFirst(s) == Reverse(s)

\* list.sort(CompareDue): stable, as the browser engine sorts a short array:
\* the initial run is found (and reversed when strictly descending), the
\* rest is inserted by binary search
SortByDueDate(s) ==
  IF Len(s) < 2 THEN s ELSE SortFrom(s, CompareDue(s[2], s[1]) < 0)

\* item.SheetNames || item.Sheets || item.Workbook
HasWorkbookProps(item) ==
  \E f \in {"SheetNames", "Sheets", "Workbook"} : f \in DOMAIN item

\* the filter of processFiles and of safeSetExtractedData
NotWorkbook(item) == ~HasWorkbookProps(item)

safeSetExtractedData(data) == SelectSeq(data, NotWorkbook)

\* processFiles, from the accumulated list to the stored list
Finalize(all) ==
  safeSetExtractedData(
    SortByDueDate(removeDuplicateAssignments(SelectSeq(all, NotWorkbook))))

\* the inline clean-up of the earlier processFiles: sort, then drop
\* duplicates on the key title-type-dueDate-course
InlineFinalize(results) ==
  DedupLoop(SortByDueDate(results), {}, <<>>, TRUE)

(***************************************************************************)
(* Strings, rows and files.                                                *)
(***************************************************************************)
\* String.prototype.toLowerCase on the words of the model
Lower(s) ==
  CASE s = "HW" -> "hw"
    [] s = "Homework" -> "homework"
    [] s = "P&C" -> "p&c"
    [] s = "Activity" -> "activity"
    [] s = "Midterm" -> "midterm"
    [] s = "Final" -> "final"
    [] s = "Exam" -> "exam"
    [] s = "Review" -> "review"
    [] s = "PROJECT" -> "project"
    [] s = "Project" -> "project"
    [] s = "Quiz" -> "quiz"
    [] s = "Essay" -> "essay"
    [] s = "TBD" -> "tbd"
    [] s = "Recursion" -> "recursion"
    [] s = "Due" -> "due"
    [] s = "DUE" -> "due"
    [] s = "By" -> "by"
    [] s = "Date" -> "date"
    [] s = "Topic" -> "topic"
    [] s = "Friday" -> "friday"
    [] OTHER -> s

IsWord(tok, s) == tok.k = "w" /\ Lower(tok.s) = s

\* value.toLowerCase().includes(keyword): the words of the model hold a
\* keyword only as the whole word
Includes(v, keyword) ==
  \E i \in 1..Len(v.w) : v.w[i].k = "w" /\ Lower(v.w[i].s) = keyword

\* a keyword of the set followed by a number at position i of w
KeywordNumberAt(w, keywords, i) ==
  w[i].k = "w" /\ Lower(w[i].s) \in keywords /\ w[i + 1].k = "n"

\* text.match(/(keyword) (\d+)/i): the position of the number of the first
\* match, 0 for no match
NumberAfter(w, keywords) ==
  IF \E i \in 1..(Len(w) - 1) : KeywordNumberAt(w, keywords, i)
  THEN 1 + (CHOOSE i \in 1..(Len(w) - 1) :
              /\ KeywordNumberAt(w, keywords, i)
              /\ \A j \in 1..(i - 1) : ~KeywordNumberAt(w, keywords, j))
  ELSE 0

\* value.includes(phrase), case kept
HasPhrase(v, phrase) ==
  \E i \in 1..(Len(v.w) - Len(phrase) + 1) :
    SubSeq(v.w, i, i + Len(phrase) - 1) = phrase

\* String(v)
ToStr(v) == IF v.t = "string" THEN v ELSE Word(JSToString(v))

\* the sequences over S of length at most n
RECURSIVE SeqsUpTo(_, _)
Longer(shorter, S, n) ==
  shorter \cup {Append(q, x) : q \in {r \in shorter : Len(r) = n - 1}, x \in S}

SeqsUpTo(S, n) == IF n = 0 THEN {<<>>} ELSE Longer(SeqsUpTo(S, n - 1), S, n)

\* a File: its name is base.ext
File(base, ext) == [base |-> base, ext |-> ext]
FileName(file) == file.base \o "." \o file.ext
NameStr(file) == Word(FileName(file))

\* fileName.match(/([A-Z]{2,4})\s*(\d{3,4})/i) on the file names of the model
CourseMatch(base) ==
  CASE base = "CS101" -> <<W("CS"), N(101)>>
    [] base = "MATH200" -> <<W("MATH"), N(200)>>
    [] base = "CMP168_Timeline" -> <<W("CMP"), N(168)>>
    [] OTHER -> <<>>

extractCourseCode(file) ==
  IF CourseMatch(file.base) # <<>> THEN Str(CourseMatch(file.base))
  ELSE Word(file.base)

\* the column names of the sheets of the model, in sheet order
HWDue == "HW Due By 11:59 PM On Specified Date"
PCDue == "P&C Due By 11:59 PM On Specified Date"
LectureTopic == "Lecture Topic T,Th"
LabTopic == "Lab Session Topic"
Columns ==
  <<"Date", "Due Date", "due date", "Due", "Deadline", LectureTopic, LabTopic,
    HWDue, PCDue, "Lab #", "Title", "title", "Assignment", "Type", "Course", "Notes",
    "self">>

\* key.toLowerCase() on the column names
LowerCol(c) ==
  CASE c = "Date" -> "date"
    [] c = "Due Date" -> "due date"
    [] c = "Due" -> "due"
    [] c = "Deadline" -> "deadline"
    [] c = LectureTopic -> "lecture topic t,th"
    [] c = LabTopic -> "lab session topic"
    [] c = HWDue -> "hw due by 11:59 pm on specified date"
    [] c = PCDue -> "p&c due by 11:59 pm on specified date"
    [] c = "Lab #" -> "lab #"
    [] c = "Title" -> "title"
    [] c = "Assignment" -> "assignment"
    [] c = "Type" -> "type"
    [] c = "Course" -> "course"
    [] c = "Notes" -> "notes"
    [] OTHER -> c

\* Object.keys(row), for (const key in row)
KeysOf(row) == SelectSeq(Columns, LAMBDA c : c \in DOMAIN row)

\* row[variant] !== undefined && row[variant] !== null && row[variant] !== ""
Filled(v) == v # Undef /\ v # Null /\ v # EmptyStr

\* the result of a call: a value, or the message of the exception thrown
Return(val) == [ok |-> TRUE, val |-> val]
Throw(msg) == [ok |-> FALSE, msg |-> msg]

(***************************************************************************)
(* SyllabusSyncApp.js: the flat-table extraction of processCSVFile.        *)
(***************************************************************************)
RECURSIVE findValueFromVariants(_, _)
findValueFromVariants(row, variants) ==
  IF variants = <<>> THEN Null
  ELSE IF Filled(Get(row, Head(variants))) THEN Get(row, Head(variants))
  ELSE findValueFromVariants(row, Tail(variants))

\* the findValueFromVariants of the second component: an exact match, then a
\* match of the lower-cased names, variant by variant
FirstCell(row, hits) == IF hits = <<>> THEN Null ELSE row[hits[1]]

FirstSameLower(row, keys, name) ==
  FirstCell(row, SelectSeq(keys, LAMBDA key :
                     LowerCol(key) = LowerCol(name) /\ Filled(row[key])))

RECURSIVE findValueAnyCase(_, _)
AnyCaseStep(row, variants, found) ==
  IF found # Null THEN found ELSE findValueAnyCase(row, Tail(variants))

findValueAnyCase(row, variants) ==
  IF variants = <<>> THEN Null
  ELSE IF Filled(Get(row, Head(variants))) THEN Get(row, Head(variants))
  ELSE AnyCaseStep(row, variants, FirstSameLower(row, KeysOf(row), Head(variants)))

\* the lookup a component has in scope
Lookup(row, variants, anyCase) ==
  IF anyCase THEN findValueAnyCase(row, variants)
  ELSE findValueFromVariants(row, variants)

\* one row of results.data with its parsed due date: the records it adds
CSVRecord(row, file, anyCase, parsedDate) ==
  IF ~Truthy(parsedDate) \/ isDateInPast(parsedDate) THEN <<>>
  ELSE <<Rec(OrElse(Lookup(row, <<"Title", "Assignment", "Task", "Name">>, anyCase),
                    Str(<<W("Unnamed"), W("Assignment")>>)),
             formatDate(parsedDate),
             OrElse(Lookup(row, <<"Course", "Class">>, anyCase),
                    extractCourseCode(file)),
             OrElse(Lookup(row, <<"Description", "Details", "Notes">>, anyCase),
                    EmptyStr),
             OrElse(Lookup(row, <<"Type", "Category">>, anyCase),
                    Word("Assignment")),
             NameStr(file))>>

CSVDated(row, file, anyCase, dueDate) ==
  IF ~Truthy(dueDate) THEN <<>>
  ELSE CSVRecord(row, file, anyCase, parseDate(dueDate, CurrentYear))

\* one row of results.data: the records it adds (none, or one)
CSVRow(row, file, anyCase) ==
  IF DOMAIN row = {} THEN <<>>
  ELSE CSVDated(row, file, anyCase,
                Lookup(row, <<"Due Date", "Due", "Deadline", "Date">>, anyCase))

RECURSIVE CSVRows(_, _, _)
CSVRows(rows, file, anyCase) ==
  IF rows = <<>> THEN <<>>
  ELSE CSVRow(Head(rows), file, anyCase) \o CSVRows(Tail(rows), file, anyCase)

\* the content of an uploaded file: unreadable, the rows of a CSV table, or
\* a workbook
Unreadable == [t |-> "unreadable"]
Table(rows) == [t |-> "table", rows |-> rows]
Sheet(name, rows) == [name |-> name, rows |-> rows]

CSVFile(file, content, anyCase) ==
  IF content.t = "unreadable" THEN Throw("CSV parsing error: read failed")
  ELSE Return(CSVRows(content.rows, file, anyCase))

processCSVFile(file, content) == CSVFile(file, content, FALSE)

(***************************************************************************)
(* SyllabusSyncApp.js: processExcelFile and the parseTimelineSheet of the  *)
(* component, which is the one processExcelFile calls.                     *)
(***************************************************************************)
\* text.match(...) and text.toLowerCase() exist on strings only
NotText(v) == Truthy(v) /\ v.t # "string"

\* the captured number as one more token of a title, an empty token when
\* the pattern does not match
TokenAt(w, n) == IF n # 0 THEN <<w[n]>> ELSE <<W("")>>

NumberSuffix(text, keyword) == TokenAt(text.w, NumberAfter(text.w, {keyword}))

\* /P&C Activity (\d+)/i
ActivityNumberAt(w, n) ==
  IF n > 2 /\ w[n - 2].k = "w" /\ Lower(w[n - 2].s) = "p&c" THEN <<w[n]>>
  ELSE <<W("")>>

ActivityNumberIn(text) == ActivityNumberAt(text.w, NumberAfter(text.w, {"activity"}))

extractActivityNumber(row) ==
  ActivityNumberIn(OrElse(Get(row, LectureTopic), EmptyStr))

\* /HW (\d+)/i
extractHomeworkNumber(row) ==
  NumberSuffix(OrElse(Get(row, LectureTopic), EmptyStr), "hw")

extractExamTitle(text) ==
  IF Includes(text, "midterm") THEN Str(<<W("Midterm"), W("Exam")>>)
  ELSE IF Includes(text, "final") THEN Str(<<W("Final"), W("Exam")>>)
  ELSE Word("Exam")

\* a title with the number that follows one of the keywords, if any
TitleAt(name, w, n) == IF n # 0 THEN Str(<<W(name), w[n]>>) ELSE Word(name)

NumberedTitle(name, value, keywords) ==
  TitleAt(name, value.w, NumberAfter(value.w, keywords))

extractProjectTitle(text) == NumberedTitle("Project", text, {"project"})

TopicTokens(v) == IF Truthy(v) THEN StringTokens(v) ELSE <<>>

JoinTopics(lecture, lab) ==
  IF lab = <<>> THEN Str(lecture)
  ELSE IF lecture = <<>> THEN Str(lab)
  ELSE Str(lecture \o <<W("-")>> \o lab)

extractTopicDescription(row) ==
  JoinTopics(TopicTokens(Get(row, LectureTopic)), TopicTokens(Get(row, LabTopic)))

\* the row throws a TypeError: a topic cell that is no string
TimelineRowThrows(row) ==
  NotText(Get(row, LectureTopic)) \/ NotText(Get(row, LabTopic))

\* the records one row adds, in the order of the four checks
TimelineRow(row, courseName) ==
  (IF Truthy(Get(row, PCDue))
     THEN <<Rec(Str(<<W("P&C"), W("Activity")>> \o extractActivityNumber(row)),
                formatDate(parseDate(Get(row, PCDue), CurrentYear)),
                courseName, extractTopicDescription(row),
                Str(<<W("P&C"), W("Activity")>>), Undef)>>
   ELSE <<>>)
  \o
  (IF Truthy(Get(row, HWDue))
     THEN <<Rec(Str(<<W("Homework")>> \o extractHomeworkNumber(row)),
                formatDate(parseDate(Get(row, HWDue), CurrentYear)),
                courseName, extractTopicDescription(row), Word("Homework"), Undef)>>
   ELSE <<>>)
  \o
  (IF Truthy(Get(row, LectureTopic)) /\ Includes(Get(row, LectureTopic), "exam")
     THEN <<Rec(extractExamTitle(Get(row, LectureTopic)),
                formatDate(parseDate(Get(row, "Date"), CurrentYear)),
                courseName, Get(row, LectureTopic), Word("Exam"), Undef)>>
   ELSE <<>>)
  \o
  (IF Truthy(Get(row, LabTopic)) /\ Includes(Get(row, LabTopic), "project")
     THEN <<Rec(extractProjectTitle(Get(row, LabTopic)),
                formatDate(parseDate(Get(row, "Date"), CurrentYear)),
                courseName, Get(row, LabTopic), Word("Project"), Undef)>>
   ELSE <<>>)

\* the records of a row put before those of the rows after it, unless one
\* of those rows threw
Prepend(records, rest) == IF rest.ok THEN Return(records \o rest.val) ELSE rest

\* const parseTimelineSheet = (sheet, courseName, currentYear) => ...
RECURSIVE ComponentTimelineSheet(_, _, _)
ComponentTimelineSheet(rows, courseName, currentYear) ==
  IF rows = <<>> THEN Return(<<>>)
  ELSE IF TimelineRowThrows(Head(rows))
    THEN Throw("Failed to process Excel file: toLowerCase is not a function")
  ELSE Prepend(TimelineRow(Head(rows), courseName),
               ComponentTimelineSheet(Tail(rows), courseName, currentYear))

\* a reference to the workbook object as a field of a record holds it: the
\* model keeps of the object its SheetNames, the names of its sheets
RECURSIVE SheetNamesOf(_)
SheetNamesOf(sheets) ==
  IF sheets = <<>> THEN <<>>
  ELSE <<Word(Head(sheets).name)>> \o SheetNamesOf(Tail(sheets))

Reference(workbook) ==
  [t |-> "object", SheetNames |-> Arr(SheetNamesOf(workbook.SheetNames.items))]

\* TimelineParser.detectTimelineFormat(workbook)
detectTimelineFormat(workbook) == "SheetNames" \in DOMAIN workbook

\* /info|metadata|readme|about/i.test(sheetName)
IsInfoSheet(name) == name \in {"Info", "README"}

\* the result of one sheet followed by that of the sheets after it
Both(here, rest) ==
  IF ~here.ok THEN here
  ELSE IF ~rest.ok THEN rest
  ELSE Return(here.val \o rest.val)

\* the loop over workbook.SheetNames; parseTimelineSheet is called with
\* (sheet, workbook, courseName, currentYear), so that its courseName
\* parameter is the workbook
RECURSIVE ExcelSheets(_, _, _, _)
ExcelSheets(sheets, workbook, file, isTimeline) ==
  IF sheets = <<>> THEN Return(<<>>)
  ELSE IF IsInfoSheet(Head(sheets).name) \/ ~isTimeline
    THEN ExcelSheets(Tail(sheets), workbook, file, isTimeline)
  ELSE Both(ComponentTimelineSheet(Head(sheets).rows, Reference(workbook),
                                   extractCourseCode(file)),
            ExcelSheets(Tail(sheets), workbook, file, isTimeline))

processExcelFile(file, content) ==
  IF content.t = "unreadable"
    THEN Throw("Failed to process Excel file: unsupported file")
  ELSE ExcelSheets(content.SheetNames.items, content, file,
                   detectTimelineFormat(content))

(***************************************************************************)
(* TimelineParser.js: the exported parseTimelineSheet.                     *)
(***************************************************************************)
\* JSON.stringify(row) throws: a cell that refers back to its row, a BigInt
Unserialisable(row) == \E c \in DOMAIN row : row[c] = Cyclic

dateColumnCandidates ==
  <<"Date", "DUE DATE", "Due Date", "Due date", "date", "Deadline", "deadline",
    "Due By", "due by", "When">>

assignmentColumnKeywords ==
  {"hw", "homework", "p&c", "activity", "assignment", "project", "exam", "quiz",
   "due", "task", "deliverable"}

contentColumnKeywords == {"topic", "content", "description", "lecture", "session", "lab"}

\* the keywords of the two lists that the lower-cased column name includes
ColumnKeywords(c) ==
  CASE c \in {"Due Date", "due date", "Due"} -> {"due"}
    [] c = LectureTopic -> {"topic", "lecture"}
    [] c = LabTopic -> {"lab", "session", "topic"}
    [] c = HWDue -> {"hw", "due"}
    [] c = PCDue -> {"p&c", "due"}
    [] c = "Lab #" -> {"lab"}
    [] c = "Assignment" -> {"assignment"}
    [] OTHER -> {}

\* dateColumnCandidates.some(dc => lowerKey === dc.toLowerCase())
IsDateColumn(c) ==
  LowerCol(c) \in {"date", "due date", "deadline", "due by", "when"}

IsAssignmentColumn(c) == ColumnKeywords(c) \cap assignmentColumnKeywords # {}
IsContentColumn(c) == ColumnKeywords(c) \cap contentColumnKeywords # {}

IncludesAny(v, keywords) == \E k \in keywords : Includes(v, k)

\* the first cell of the listed columns that holds something
RECURSIVE FirstFilled(_, _)
FirstFilled(row, cols) ==
  IF cols = <<>> THEN Null
  ELSE IF Filled(Get(row, Head(cols))) THEN Get(row, Head(cols))
  ELSE FirstFilled(row, Tail(cols))

\* the first string or number cell that parseDate reads as a valid date
ParsableCell(value, possibleDate) ==
  /\ Truthy(value)
  /\ value.t \in {"string", "number"}
  /\ Truthy(possibleDate)
  /\ possibleDate.d # NaD

RECURSIVE FirstParsable(_, _, _)
FirstParsable(row, keys, currentYear) ==
  IF keys = <<>> THEN Null
  ELSE IF ParsableCell(row[Head(keys)], parseDate(row[Head(keys)], currentYear))
    THEN row[Head(keys)]
  ELSE FirstParsable(row, Tail(keys), currentYear)

\* the first string cell that holds a date pattern
RECURSIVE FirstPattern(_, _)
FirstPattern(row, keys) ==
  IF keys = <<>> THEN Null
  ELSE IF row[Head(keys)].t = "string" /\ FirstDateTok(row[Head(keys)].w) # 0
    THEN row[Head(keys)]
  ELSE FirstPattern(row, Tail(keys))

OrParsable(row, named, currentYear) ==
  IF Truthy(named) THEN named ELSE FirstParsable(row, KeysOf(row), currentYear)

OrPattern(row, parsable) ==
  IF Truthy(parsable) THEN parsable ELSE FirstPattern(row, KeysOf(row))

FindRowDate(row, currentYear) ==
  OrPattern(row, OrParsable(row, FirstFilled(row, dateColumnCandidates), currentYear))

NoAssignmentWords == {"n/a", "-", "none", "no class", "holiday"}

ActivityTitleAt(w, n) ==
  IF n # 0 THEN Str(<<W("P&C"), W("Activity"), w[n]>>)
  ELSE Str(<<W("P&C"), W("Activity")>>)

\* the title and the type of a cell, from the keywords kw of its column name
\* and from its words
TitleAndType(colValue, kw) ==
  IF kw \cap {"hw", "homework"} # {} \/ IncludesAny(colValue, {"hw", "homework"})
    THEN <<NumberedTitle("Homework", colValue, {"hw", "homework"}), Word("Homework")>>
  ELSE IF kw \cap {"p&c", "activity"} # {} \/ IncludesAny(colValue, {"p&c", "activity"})
    THEN <<ActivityTitleAt(colValue.w, NumberAfter(colValue.w, {"p&c", "activity"})),
           Str(<<W("P&C"), W("Activity")>>)>>
  ELSE IF IncludesAny(colValue, {"exam", "midterm", "final", "test"})
    THEN IF Includes(colValue, "midterm")
           THEN <<Str(<<W("Midterm"), W("Exam")>>), Str(<<W("Midterm"), W("Exam")>>)>>
         ELSE IF Includes(colValue, "final")
           THEN <<Str(<<W("Final"), W("Exam")>>), Str(<<W("Final"), W("Exam")>>)>>
         ELSE <<Word("Exam"), Word("Exam")>>
  ELSE IF Includes(colValue, "project")
    THEN <<NumberedTitle("Project", colValue, {"project"}), Word("Project")>>
  ELSE IF Includes(colValue, "quiz")
    THEN <<NumberedTitle("Quiz", colValue, {"quiz"}), Word("Quiz")>>
  ELSE <<Word("Assignment"), Word("Assignment")>>

TypedRecord(typed, colValue, rowDate, courseName) ==
  <<Rec(typed[1], formatDate(rowDate), courseName, colValue, typed[2], Undef)>>

\* the record of one cell, <<>> when the cell holds no assignment
extractAssignmentFromValue(colValue, colName, rowDate, courseName) ==
  IF ~Truthy(colValue) \/ colValue.t # "string" THEN <<>>
  ELSE IF Len(colValue.w) = 1 /\ colValue.w[1].k = "w"
          /\ Lower(colValue.w[1].s) \in NoAssignmentWords THEN <<>>
  ELSE TypedRecord(TitleAndType(colValue, ColumnKeywords(colName)), colValue,
                   rowDate, courseName)

ContentWords ==
  {"homework", "hw", "assignment", "project", "exam", "activity", "due", "p&c",
   "quiz", "test"}
OtherWords == {"homework", "hw", "assignment", "project", "due", "submit"}

\* which of the three passes reads column c
InPass(pass, c, value) ==
  CASE pass = 1 -> ~IsDateColumn(c) /\ IsAssignmentColumn(c)
    [] pass = 2 -> /\ ~IsDateColumn(c) /\ ~IsAssignmentColumn(c) /\ IsContentColumn(c)
                   /\ Truthy(value) /\ value.t = "string"
                   /\ IncludesAny(value, ContentWords)
    [] pass = 3 -> /\ ~IsDateColumn(c) /\ ~IsAssignmentColumn(c) /\ ~IsContentColumn(c)
                   /\ Truthy(value) /\ value.t = "string"
                   /\ IncludesAny(value, OtherWords)

RECURSIVE ColumnPass(_, _, _, _, _)
ColumnPass(pass, row, keys, rowDate, courseName) ==
  IF keys = <<>> THEN <<>>
  ELSE (IF InPass(pass, Head(keys), row[Head(keys)])
          THEN extractAssignmentFromValue(row[Head(keys)], Head(keys), rowDate, courseName)
        ELSE <<>>)
       \o ColumnPass(pass, row, Tail(keys), rowDate, courseName)

\* the first of the three passes that found something
RowRecords(first, second, third) ==
  IF first # <<>> THEN first ELSE IF second # <<>> THEN second ELSE third

DatedRow(row, courseName, rowDate) ==
  IF ~Truthy(rowDate) THEN <<>>
  ELSE IF isDateInPast(rowDate) THEN <<>>
  ELSE RowRecords(ColumnPass(1, row, KeysOf(row), rowDate, courseName),
                  ColumnPass(2, row, KeysOf(row), rowDate, courseName),
                  ColumnPass(3, row, KeysOf(row), rowDate, courseName))

RowWithDate(row, courseName, currentYear, dateValue) ==
  IF ~Truthy(dateValue) THEN <<>>
  ELSE DatedRow(row, courseName, parseDate(dateValue, currentYear))

\* the records of one row whose JSON.stringify succeeded
SheetRow(row, courseName, currentYear) ==
  IF DOMAIN row = {} THEN <<>>
  ELSE RowWithDate(row, courseName, currentYear, FindRowDate(row, currentYear))

\* the forEach inside the try: the records pushed, or the exception of the
\* first row that throws
RECURSIVE SheetRows(_, _, _)
SheetRows(rows, courseName, currentYear) ==
  IF rows = <<>> THEN Return(<<>>)
  ELSE IF DOMAIN Head(rows) # {} /\ Unserialisable(Head(rows))
    THEN Throw("Converting circular structure to JSON")
  ELSE Prepend(SheetRow(Head(rows), courseName, currentYear),
               SheetRows(Tail(rows), courseName, currentYear))

\* item => ({title: String(item.title || ""), ...})
RECURSIVE CleanCopies(_)
CleanCopies(items) ==
  IF items = <<>> THEN <<>>
  ELSE <<Rec(ToStr(OrElse(Head(items).title, EmptyStr)),
             ToStr(OrElse(Head(items).dueDate, EmptyStr)),
             ToStr(OrElse(Head(items).course, EmptyStr)),
             ToStr(OrElse(Head(items).description, EmptyStr)),
             ToStr(OrElse(Head(items).type, Word("Assignment"))),
             Undef)>> \o CleanCopies(Tail(items))

\* the end of the try, and its catch, which returns []
Caught(pushed) == IF pushed.ok THEN Return(CleanCopies(pushed.val)) ELSE Return(<<>>)

parseTimelineSheet(jsonData, courseName, currentYear) ==
  IF ~Truthy(jsonData) \/ jsonData.t # "array" \/ jsonData.items = <<>>
    THEN Return(<<>>)
  ELSE IF Unserialisable(jsonData.items[1])
    THEN Throw("Converting circular structure to JSON")
  ELSE Caught(SheetRows(jsonData.items, courseName, currentYear))

(***************************************************************************)
(* CMP168Parser.js                                                         *)
(***************************************************************************)
CMPCourse == Str(<<W("CMP"), N(168)>>)

\* Object.values(row).join(' ').toLowerCase().includes(keyword)
RowIncludes(row, keyword) ==
  \E c \in DOMAIN row : row[c].t = "string" /\ Includes(row[c], keyword)

\* description.match(...) on a Lecture Topic cell that is no string
CMPRowThrows(row) ==
  /\ Truthy(Get(row, HWDue)) \/ Truthy(Get(row, PCDue))
  /\ NotText(Get(row, LectureTopic))

HomeworkOf(description, formattedDate) ==
  <<Rec(NumberedTitle("Homework", description, {"hw"}), formattedDate,
        CMPCourse, description, Word("Homework"), Undef)>>

CMPHomework(row, formattedDate) ==
  IF ~Truthy(Get(row, HWDue)) THEN <<>>
  ELSE HomeworkOf(OrElse(Get(row, LectureTopic), EmptyStr), formattedDate)

\* /P&C\s*Activity\s*(\d+)/i on the Lecture Topic
TopicActivityTitle(w, n) ==
  IF n > 2 /\ w[n - 2].k = "w" /\ Lower(w[n - 2].s) = "p&c"
    THEN Str(<<W("P&C"), W("Activity"), w[n]>>)
  ELSE Str(<<W("P&C"), W("Activity")>>)

\* /Activity\s*(\d+)/i on the text of the cell
CellActivityTitle(w, n, fromTopic) ==
  IF n # 0 THEN Str(<<W("P&C"), W("Activity"), w[n]>>) ELSE fromTopic

ActivityTitle(description, cell) ==
  IF cell.t = "string"
    THEN CellActivityTitle(cell.w, NumberAfter(cell.w, {"activity"}),
           TopicActivityTitle(description.w, NumberAfter(description.w, {"activity"})))
  ELSE TopicActivityTitle(description.w, NumberAfter(description.w, {"activity"}))

ActivityDescription(description, cell) ==
  IF cell.t # "string" THEN description
  ELSE IF Truthy(description) THEN Str(description.w \o <<W("-")>> \o cell.w)
  ELSE cell

ActivityOf(description, cell, formattedDate) ==
  <<Rec(ActivityTitle(description, cell), formattedDate, CMPCourse,
        ActivityDescription(description, cell), Str(<<W("P&C"), W("Activity")>>),
        Undef)>>

CMPActivity(row, formattedDate) ==
  IF ~Truthy(Get(row, PCDue)) THEN <<>>
  ELSE ActivityOf(OrElse(Get(row, LectureTopic), EmptyStr), Get(row, PCDue),
                  formattedDate)

ProjectOf(labText, formattedDate) ==
  IF HasPhrase(labText, <<W("PROJECT")>>)
    THEN <<Rec(NumberedTitle("Project", labText, {"project"}), formattedDate,
               CMPCourse, labText, Word("Project"), Undef)>>
  ELSE <<>>

CMPProject(row, formattedDate) ==
  IF Truthy(Get(row, LabTopic)) THEN ProjectOf(ToStr(Get(row, LabTopic)), formattedDate)
  ELSE <<>>

CMPExam(row, formattedDate) ==
  LET title == IF RowIncludes(row, "midterm") THEN Str(<<W("Midterm"), W("Exam")>>)
               ELSE IF RowIncludes(row, "final") THEN Str(<<W("Final"), W("Exam")>>)
               ELSE Word("Exam")
      description == IF Truthy(Get(row, LectureTopic)) THEN Get(row, LectureTopic)
                     ELSE IF Truthy(Get(row, LabTopic)) THEN Get(row, LabTopic)
                     ELSE EmptyStr
  IN IF \E k \in {"exam", "midterm", "final"} : RowIncludes(row, k)
       THEN <<Rec(title, formattedDate, CMPCourse, description, Word("Exam"), Undef)>>
     ELSE <<>>

SpecialOf(lab, formattedDate) ==
  IF ~Truthy(lab) \/ lab.t # "string" THEN <<>>
  ELSE IF HasPhrase(lab, <<W("Project"), N(1), W("Continued")>>)
    THEN <<Rec(Str(<<W("Project"), N(1), W("Continued")>>), formattedDate,
               CMPCourse, lab, Word("Project"), Undef)>>
  ELSE IF HasPhrase(lab, <<W("PROJECT"), N(1), W("DUE")>>)
    THEN <<Rec(Str(<<W("Project"), N(1)>>), formattedDate, CMPCourse,
               Str(lab.w \o <<W("-"), W("Due"), W("Date")>>), Word("Project"), Undef)>>
  ELSE IF HasPhrase(lab, <<W("File"), W("I/O"), W("&"), W("Exceptions")>>)
    THEN <<Rec(Str(<<W("File"), W("I/O"), W("&"), W("Exceptions"), W("Assignment")>>),
               formattedDate, CMPCourse, lab, Word("Assignment"), Undef)>>
  ELSE <<>>

CMPSpecial(row, formattedDate) == SpecialOf(Get(row, LabTopic), formattedDate)

CMPReview(row, formattedDate) ==
  IF /\ Truthy(Get(row, "Lab #"))
     /\ Truthy(Get(row, LabTopic))
     /\ HasPhrase(ToStr(Get(row, LabTopic)), <<W("Exam"), W("Review")>>)
    THEN <<Rec(Str(<<W("Exam"), W("Review")>>), formattedDate, CMPCourse,
               Get(row, LabTopic), Word("Assignment"), Undef)>>
  ELSE <<>>

\* the six checks of a row, in order
CMPRecords(row, formattedDate) ==
  CMPHomework(row, formattedDate) \o CMPActivity(row, formattedDate)
    \o CMPProject(row, formattedDate) \o CMPExam(row, formattedDate)
    \o CMPSpecial(row, formattedDate) \o CMPReview(row, formattedDate)

CMPDated(row, rowDate) ==
  IF ~Truthy(rowDate) THEN <<>>
  ELSE IF isDateInPast(rowDate) THEN <<>>
  ELSE CMPRecords(row, formatDate(rowDate))

\* the records one row pushes when no step of it throws
CMPRow(row) ==
  IF ~Truthy(Get(row, "Date")) THEN <<>>
  ELSE CMPDated(row, parseDate(Get(row, "Date"), CurrentYear))

\* the row has a date that is kept, so that its checks run
KeptDate(rowDate) == Truthy(rowDate) /\ ~isDateInPast(rowDate)

CMPRowReached(row) ==
  Truthy(Get(row, "Date")) /\ KeptDate(parseDate(Get(row, "Date"), CurrentYear))

\* the rows of one sheet inside the try: what is pushed before the first
\* row that throws
RECURSIVE CMPSheet(_)
CMPSheet(rows) ==
  IF rows = <<>> THEN <<>>
  ELSE IF CMPRowReached(Head(rows)) /\ CMPRowThrows(Head(rows)) THEN <<>>
  ELSE CMPRow(Head(rows)) \o CMPSheet(Tail(rows))

RECURSIVE CMPSheets(_)
CMPSheets(sheets) ==
  IF sheets = <<>> THEN <<>>
  ELSE CMPSheet(Head(sheets).rows) \o CMPSheets(Tail(sheets))

parseCMP168Timeline(workbook) ==
  IF ~Truthy(workbook) \/ "SheetNames" \notin DOMAIN workbook
     \/ ~Truthy(workbook.SheetNames)
    THEN Return(<<>>)
  ELSE IF workbook.SheetNames.t # "array"
    THEN Throw("workbook.SheetNames is not iterable")
  ELSE Return(CleanCopies(CMPSheets(workbook.SheetNames.items)))

\* keep the records that have a title and a dueDate and are no workbook,
\* and copy their fields as strings
SanitizeItem(item) ==
  IF HasWorkbookProps(item) \/ ~Truthy(item.title) \/ ~Truthy(item.dueDate) THEN <<>>
  ELSE <<Rec(ToStr(item.title), ToStr(item.dueDate),
             ToStr(OrElse(item.course, EmptyStr)),
             ToStr(OrElse(item.description, EmptyStr)),
             ToStr(OrElse(item.type, Word("Assignment"))),
             IF Truthy(item.fileName) THEN ToStr(item.fileName) ELSE Undef)>>

RECURSIVE sanitizeAssignmentData(_)
sanitizeAssignmentData(assignments) ==
  IF assignments = <<>> THEN <<>>
  ELSE SanitizeItem(Head(assignments)) \o sanitizeAssignmentData(Tail(assignments))

\* the detectTimelineFormat(jsonData) of the component: a key of the first
\* row includes Date, Week, Day, Session, Due By or Topic
LooksLikeTimeline(rows) ==
  /\ rows # <<>>
  /\ DOMAIN rows[1] \cap {"Date", "Due Date", LectureTopic, LabTopic, HWDue, PCDue} # {}

\* the standard format of a sheet, row by row
FlatRecord(row, file, parsedDate) ==
  IF ~Truthy(parsedDate) \/ isDateInPast(parsedDate) THEN <<>>
  ELSE <<Rec(ToStr(OrElse(findValueAnyCase(row,
                <<"Title", "Assignment", "Task", "Name", "Description",
                  "Assignment Name", "Homework", "Project", "Activity">>),
                Str(<<W("Unnamed"), W("Assignment")>>))),
             ToStr(formatDate(parsedDate)),
             ToStr(OrElse(findValueAnyCase(row, <<"Course", "Class", "Subject">>),
                          extractCourseCode(file))),
             ToStr(OrElse(findValueAnyCase(row,
                <<"Description", "Details", "Notes", "Instructions", "Content">>),
                EmptyStr)),
             ToStr(OrElse(findValueAnyCase(row,
                <<"Type", "Category", "Assignment Type", "Kind">>),
                Word("Assignment"))),
             NameStr(file))>>

FlatDated(row, file, dueDate) ==
  IF ~Truthy(dueDate) THEN <<>>
  ELSE FlatRecord(row, file, parseDate(dueDate, CurrentYear))

FlatRow(row, file) ==
  IF DOMAIN row = {} THEN <<>>
  ELSE FlatDated(row, file, findValueAnyCase(row,
         <<"Due Date", "Due", "Deadline", "Date", "DUE DATE", "Due date",
           "due date", "Submission Date", "Submit By", "Due By">>))

RECURSIVE FlatRows(_, _)
FlatRows(rows, file) ==
  IF rows = <<>> THEN <<>>
  ELSE FlatRow(Head(rows), file) \o FlatRows(Tail(rows), file)

\* the sheets of a workbook; a timeline sheet goes to the parseTimelineSheet
\* of the component, which reads the row array as a sheet and finds no rows
RECURSIVE StandardSheets(_, _)
StandardSheets(sheets, file) ==
  IF sheets = <<>> THEN <<>>
  ELSE (IF IsInfoSheet(Head(sheets).name) \/ Head(sheets).rows = <<>> THEN <<>>
        ELSE IF LooksLikeTimeline(Head(sheets).rows) THEN <<>>
        ELSE FlatRows(Head(sheets).rows, file))
       \o StandardSheets(Tail(sheets), file)

RECURSIVE WithFileName(_, _)
WithFileName(items, file) ==
  IF items = <<>> THEN <<>>
  ELSE <<[Head(items) EXCEPT !.fileName = NameStr(file)]>>
         \o WithFileName(Tail(items), file)

\* file.name.includes("CMP168_Timeline")
IsCMP168File(file) == file.base = "CMP168_Timeline"

\* the CMP168 branch: its records when it found some, else the standard
\* processing of the sheets
CMP168Branch(file, content, parsed) ==
  IF ~parsed.ok THEN Throw("Failed to process Excel file: " \o parsed.msg)
  ELSE IF parsed.val # <<>> THEN Return(WithFileName(parsed.val, file))
  ELSE Return(StandardSheets(content.SheetNames.items, file))

processExcelFileAlt(file, content) ==
  IF content.t = "unreadable"
    THEN Throw("Failed to process Excel file: unsupported file")
  ELSE IF IsCMP168File(file)
    THEN CMP168Branch(file, content, parseCMP168Timeline(content))
  ELSE Return(StandardSheets(content.SheetNames.items, file))

processCSVFileAlt(file, content) == CSVFile(file, content, TRUE)

(***************************************************************************)
(* The uploads of the model: files, and what reading them gives.           *)
(***************************************************************************)
FileSet ==
  {File("CS101", "csv"), File("CMP168_Timeline", "xlsx"), File("notes", "txt")}

Dec5 == Str(<<D(12, 5, 2026, FALSE)>>)
Nov20 == Str(<<D(11, 20, 2026, FALSE)>>)
Oct1 == Str(<<D(10, 1, 2026, FALSE)>>)

\* rows of a CSV table after dynamicTyping: a future date, a past date, a
\* number too large for a date, another date column, lower-case headers
CsvRowSet ==
  {("Due Date" :> Dec5) @@ ("Title" :> Word("Essay")),
   ("Due Date" :> Oct1) @@ ("Title" :> Word("Essay")),
   ("Due Date" :> Num(200000000)) @@ ("Title" :> Word("Essay")),
   ("Deadline" :> Nov20) @@ ("Type" :> Word("Quiz")),
   ("due date" :> Dec5) @@ ("title" :> Word("Essay"))}

\* rows of a sheet read with cellDates: homework with a date cell, homework
\* with a text cell, homework due in the past, a numeric topic cell, a flat
\* row
XlsRowSet ==
  {(HWDue :> DateObj(<<2026, 12, 5>>)) @@ (LectureTopic :> Str(<<W("HW"), N(2)>>))
     @@ ("Date" :> DateObj(<<2026, 11, 24>>)),
   (HWDue :> Word("TBD")) @@ ("Date" :> DateObj(<<2026, 11, 24>>)),
   (HWDue :> DateObj(<<2026, 10, 1>>)),
   ("Date" :> DateObj(<<2026, 11, 24>>)) @@ (LectureTopic :> Num(5))
     @@ (HWDue :> Bool(TRUE)),
   ("Due" :> Dec5) @@ ("Title" :> Word("Essay"))}

CsvContents == {Unreadable} \cup {Table(rows) : rows \in SeqsUpTo(CsvRowSet, MaxRows)}

XlsContents ==
  {Unreadable}
    \cup {Workbook(<<Sheet("Schedule", rows)>>) : rows \in SeqsUpTo(XlsRowSet, MaxRows)}
    \cup {Workbook(<<Sheet("Info", <<r>>), Sheet("Schedule", <<r>>)>>) : r \in XlsRowSet}

\* file.name.split(".").pop().toLowerCase()
fileType(file) == file.ext

ContentsOf(file) ==
  IF fileType(file) \in {"xlsx", "xls"} THEN XlsContents
  ELSE IF fileType(file) = "csv" THEN CsvContents
  ELSE {Unreadable}

(***************************************************************************)
(* The component: its handlers.                                            *)
(***************************************************************************)
\* the error state: null, or the lines of the message
ErrorText(lines) == [t |-> "string", lines |-> lines]
Line(lead, file, msg) == [lead |-> lead, file |-> file, msg |-> msg]

Init ==
  /\ files = <<>>
  /\ extractedData = <<>>
  /\ isProcessing = FALSE
  /\ error = Null
  /\ pc = "idle"
  /\ fileIdx = 0
  /\ allAssignments = <<>>
  /\ processingErrors = <<>>
  /\ runFiles = <<>>
  /\ variant \in {"app", "alt"}
  /\ log = <<>>
  /\ input = <<>>
  /\ out1 = <<>>
  /\ out2 = <<>>
  /\ step = "none"

handleFilesUploaded ==
  /\ Len(files) < MaxFiles
  /\ \E file \in FileSet : files' = Append(files, file)
  /\ error' = Null
  /\ UNCHANGED <<extractedData, isProcessing, pc, fileIdx, allAssignments,
                 processingErrors, runFiles, variant, log>>
  /\ UNCHANGED funVars

handleRemoveFile ==
  /\ \E index \in 1..Len(files) :
       files' = SubSeq(files, 1, index - 1) \o SubSeq(files, index + 1, Len(files))
  /\ UNCHANGED <<extractedData, isProcessing, error, pc, fileIdx, allAssignments,
                 processingErrors, runFiles, variant, log>>
  /\ UNCHANGED funVars

\* a process button that stays enabled while a run is in progress
processFilesStartAnyTime ==
  /\ files # <<>>
  /\ isProcessing' = TRUE
  /\ error' = Null
  /\ extractedData' = <<>>
  /\ allAssignments' = <<>>
  /\ processingErrors' = <<>>
  /\ runFiles' = files
  /\ fileIdx' = 1
  /\ pc' = "loop"
  /\ log' = <<>>
  /\ UNCHANGED <<files, variant>>
  /\ UNCHANGED funVars

\* a click on the process button, which is disabled without files and while
\* a run is in progress: processFiles up to its first await
processFilesStart ==
  /\ files # <<>>
  /\ ~isProcessing
  /\ isProcessing' = TRUE
  /\ error' = Null
  /\ extractedData' = <<>>
  /\ allAssignments' = <<>>
  /\ processingErrors' = <<>>
  /\ runFiles' = files
  /\ fileIdx' = 1
  /\ pc' = "loop"
  /\ log' = <<>>
  /\ UNCHANGED <<files, variant>>
  /\ UNCHANGED funVars

\* what reading and extracting one file comes to, in the first component
FileResult(file, content) ==
  IF fileType(file) \in {"xlsx", "xls"} THEN processExcelFile(file, content)
  ELSE IF fileType(file) = "csv" THEN processCSVFile(file, content)
  ELSE Return(<<>>)

\* a message that keeps the exception and leaves out the name of the file
UnnamedErrorLine(prev, file, msg) ==
  IF prev # Null /\ prev.lines # <<>>
    THEN ErrorText(Append(prev.lines, Line("", "", msg)))
  ELSE ErrorText(<<Line("Error processing ", "", msg)>>)

\* setError(prev => prev ? `${prev}\n${file.name}: ...` : `Error processing ...`)
FileErrorLine(prev, file, msg) ==
  IF prev # Null /\ prev.lines # <<>>
    THEN ErrorText(Append(prev.lines, Line("", FileName(file), msg)))
  ELSE ErrorText(<<Line("Error processing ", FileName(file), msg)>>)

\* a processFiles without its finally: the run ends and the flag stays
FileDoneNoFinally(file, result, all) ==
  /\ allAssignments' = all
  /\ error' = IF result.ok THEN error ELSE FileErrorLine(error, file, result.msg)
  /\ log' = Append(log, [file |-> FileName(file), ok |-> result.ok,
                         records |-> IF result.ok THEN result.val ELSE <<>>])
  /\ IF fileIdx = Len(runFiles)
       THEN /\ extractedData' = Finalize(all)
            /\ pc' = "idle"
            /\ fileIdx' = 0
            /\ UNCHANGED isProcessing
     ELSE /\ fileIdx' = fileIdx + 1
          /\ UNCHANGED <<extractedData, isProcessing, pc>>

\* the end of one turn of the loop with the result of its file: the push to
\* allAssignments or the catch, and after the last file the end of processFiles
FileDone(file, result, all) ==
  /\ allAssignments' = all
  /\ error' = IF result.ok THEN error ELSE FileErrorLine(error, file, result.msg)
  /\ log' = Append(log, [file |-> FileName(file), ok |-> result.ok,
                         records |-> IF result.ok THEN result.val ELSE <<>>])
  /\ IF fileIdx = Len(runFiles)
       THEN /\ extractedData' = Finalize(all)
            /\ isProcessing' = FALSE
            /\ pc' = "idle"
            /\ fileIdx' = 0
     ELSE /\ fileIdx' = fileIdx + 1
          /\ UNCHANGED <<extractedData, isProcessing, pc>>

\* a turn that puts the records of its file in front of the list
FileTurnInFront(file, result) ==
  FileDone(file, result,
           IF result.ok THEN result.val \o allAssignments ELSE allAssignments)

FileTurn(file, result) ==
  FileDone(file, result,
           IF result.ok THEN allAssignments \o result.val ELSE allAssignments)

\* processFiles of SyllabusSyncApp.js from one await to the next, or to its
\* end after the last file
processFilesStep ==
  /\ variant = "app"
  /\ pc = "loop"
  /\ \E content \in ContentsOf(runFiles[fileIdx]) :
       FileTurn(runFiles[fileIdx], FileResult(runFiles[fileIdx], content))
  /\ UNCHANGED <<files, processingErrors, runFiles, variant>>
  /\ UNCHANGED funVars

\* what one file adds in the second component: the records pushed to
\* allAssignments and the messages pushed to processingErrors
Sanitized(file, clean) ==
  IF clean = <<>>
    THEN [ok |-> TRUE, records |-> <<>>,
          errors |-> <<Line("", FileName(file),
                            "Could not extract any valid assignments")>>]
  ELSE [ok |-> TRUE, records |-> clean, errors |-> <<>>]

Extracted(file, result) ==
  IF ~result.ok
    THEN [ok |-> FALSE, records |-> <<>>,
          errors |-> <<Line("", FileName(file), result.msg)>>]
  ELSE IF result.val = <<>>
    THEN [ok |-> TRUE, records |-> <<>>,
          errors |-> <<Line("", FileName(file), "No assignments found")>>]
  ELSE Sanitized(file, sanitizeAssignmentData(result.val))

FileResultAlt(file, content) ==
  IF fileType(file) \in {"xlsx", "xls"}
    THEN Extracted(file, processExcelFileAlt(file, content))
  ELSE IF fileType(file) = "csv"
    THEN Extracted(file, processCSVFileAlt(file, content))
  ELSE [ok |-> TRUE, records |-> <<>>,
        errors |-> <<Line("", FileName(file), "Unsupported file type")>>]

\* the error the second processFiles shows after the loop
FinalError(prev, all, errors) ==
  IF all = <<>>
    THEN ErrorText(<<Line("No valid assignments found in the uploaded files", "", "")>>
                     \o errors)
  ELSE IF errors # <<>>
    THEN ErrorText(<<Line("Warning: Some files had processing issues:", "", "")>>
                     \o errors)
  ELSE prev

\* the end of one turn of the second loop, and after the last file the end
\* of the second processFiles
FileDoneAlt(file, result, all, errors) ==
  /\ allAssignments' = all
  /\ processingErrors' = errors
  /\ log' = Append(log, [file |-> FileName(file), ok |-> result.ok,
                         records |-> result.records])
  /\ IF fileIdx = Len(runFiles)
       THEN /\ extractedData' =
                 IF all = <<>> THEN <<>>
                 ELSE SortByDueDate(removeDuplicateAssignments(all))
            /\ error' = FinalError(error, all, errors)
            /\ isProcessing' = FALSE
            /\ pc' = "idle"
            /\ fileIdx' = 0
     ELSE /\ fileIdx' = fileIdx + 1
          /\ UNCHANGED <<extractedData, isProcessing, pc, error>>

FileTurnAlt(file, result) ==
  FileDoneAlt(file, result, allAssignments \o result.records,
              processingErrors \o result.errors)

\* the second processFiles from one await to the next, or to its end
processFilesStepAlt ==
  /\ variant = "alt"
  /\ pc = "loop"
  /\ \E content \in ContentsOf(runFiles[fileIdx]) :
       FileTurnAlt(runFiles[fileIdx], FileResultAlt(runFiles[fileIdx], content))
  /\ UNCHANGED <<files, runFiles, variant>>
  /\ UNCHANGED funVars

Next ==
  \/ handleFilesUploaded
  \/ handleRemoveFile
  \/ processFilesStart
  \/ processFilesStep
  \/ processFilesStepAlt

Spec == Init /\ [][Next]_vars

\* the await of the current file returns or throws: the position of the loop
\* moves on.  Among the steps of Next these are the steps of processFilesStep
\* and processFilesStepAlt, which are enabled exactly while pc = "loop".
AwaitSettles ==
  /\ pc = "loop"
  /\ fileIdx' = IF fileIdx = Len(runFiles) THEN 0 ELSE fileIdx + 1

\* every read of a file settles: the promise of processExcelFile and of
\* processCSVFile is resolved or rejected on each path of its callbacks, so
\* the turn of the current file is taken at last
SpecLive ==
  /\ Init
  /\ [][Next]_vars
  /\ WF_fileIdx(AwaitSettles)

(***************************************************************************)
(* Properties of the list processFiles stores.                             *)
(***************************************************************************)
RecordFields == {"title", "dueDate", "course", "description", "type"}

\* C1: no record of extractedData is a workbook, and none holds a workbook
\* in its title, dueDate, course, description or type
C1_NoWorkbookInRecords ==
  \A i \in 1..Len(extractedData) :
    /\ ~HasWorkbookProps(extractedData[i])
    /\ \A f \in RecordFields : ~HasWorkbookProps(extractedData[i][f])

\* C2: when processFiles has completed, every stored record has a non-empty
\* title and a dueDate string that new Date reads as a valid date
C2_TitleAndValidDueDate ==
  pc = "idle" =>
    \A i \in 1..Len(extractedData) :
      /\ Truthy(extractedData[i].title)
      /\ extractedData[i].dueDate.t = "string"
      /\ ~TimeOf(extractedData[i].dueDate).nan

\* the turn of the loop that has just ended, as the last entry of the log
IsFileTurn == Len(log') = Len(log) + 1
LastTurn == log'[Len(log')]

Names(lines, name) == \E k \in 1..Len(lines) : lines[k].file = name

\* the stored list has a record of the same de-duplication key
Appears(record) ==
  \E k \in 1..Len(extractedData') : DedupKey(extractedData'[k]) = DedupKey(record)

FailureRecorded ==
  ~LastTurn.ok =>
    IF variant = "app" THEN error' # Null /\ Names(error'.lines, LastTurn.file)
    ELSE Names(processingErrors', LastTurn.file)

BatchContinues ==
  IF fileIdx < Len(runFiles) THEN pc' = "loop" /\ fileIdx' = fileIdx + 1
  ELSE pc' = "idle"

BatchComplete ==
  pc' = "idle" =>
    /\ Len(log') = Len(runFiles)
    /\ \A k \in 1..Len(log') :
         /\ log'[k].file = FileName(runFiles[k])
         /\ \A n \in 1..Len(log'[k].records) : Appears(log'[k].records[n])
         /\ variant = "alt" /\ ~log'[k].ok =>
              error' # Null /\ Names(error'.lines, log'[k].file)

\* C3: a turn of the loop whose file fails records a message that names the
\* file, in the error state (first component) or in the list the error state
\* is made of when the run ends (second component); the loop goes on to the
\* next file, and when the run ends every file has had its turn and every
\* record a file added has a record of its key in the stored list
C3_FailureIsolated ==
  [][IsFileTurn => FailureRecorded /\ BatchContinues /\ BatchComplete]_vars

C3_Witness ==
  /\ pc = "idle"
  /\ variant = "app"
  /\ Len(log) = 2
  /\ ~log[1].ok
  /\ log[2].ok
  /\ log[2].records # <<>>
  /\ error # Null
  /\ Names(error.lines, log[1].file)
  /\ \E k \in 1..Len(extractedData) : extractedData[k] = log[2].records[1]

Dated(record) == ~TimeOf(record.dueDate).nan

\* C9: the stored list is in ascending order of the parsed due dates: of two
\* records with a due date, the earlier in the list is not due after the
\* later
C9_AscendingDueDates ==
  pc = "idle" =>
    \A i, j \in 1..Len(extractedData) :
      i < j /\ Dated(extractedData[i]) /\ Dated(extractedData[j]) =>
        TimeOf(extractedData[i].dueDate).v <= TimeOf(extractedData[j].dueDate).v

\* C10: no stored record is due before the day the extraction runs on
C10_NoPastDueDate ==
  pc = "idle" =>
    \A i \in 1..Len(extractedData) :
      Dated(extractedData[i]) =>
        TimeOf(extractedData[i].dueDate).v >= DaysFromCivil(Today[1], Today[2], Today[3])

\* the records of the turns so far, in the order of the turns
RECURSIVE RecordsOf(_)
RecordsOf(turns) ==
  IF turns = <<>> THEN <<>> ELSE Head(turns).records \o RecordsOf(Tail(turns))

\* the files before the current one have had their turn, in file order, and
\* no later file has begun; the list holds their records in that order
OneInFlight ==
  /\ Len(log) = fileIdx - 1
  /\ \A k \in 1..Len(log) : log[k].file = FileName(runFiles[k])
  /\ allAssignments = RecordsOf(log)

\* C17: processFiles handles the files one after another: a file begins only
\* when every file before it has been resolved or rejected, and during the
\* run the accumulating list changes only by the records of the file whose
\* turn ends being appended to it
C17_OneFileAtATime ==
  [][pc = "loop" =>
       /\ OneInFlight
       /\ \/ /\ IsFileTurn
             /\ LastTurn.file = FileName(runFiles[fileIdx])
             /\ allAssignments' = allAssignments \o LastTurn.records
             /\ runFiles' = runFiles
             /\ \/ pc' = "loop" /\ fileIdx' = fileIdx + 1
                \/ pc' = "idle" /\ fileIdx = Len(runFiles)
          \/ UNCHANGED <<allAssignments, log, fileIdx, runFiles, pc>>]_vars

C17_Witness ==
  /\ pc = "idle"
  /\ Len(log) = 2
  /\ log[1].records # <<>>
  /\ log[2].records # <<>>
  /\ log[1].file # log[2].file
  /\ allAssignments = log[1].records \o log[2].records

\* the turn ends a run in which no file failed and no file gave a record
EndsEmptyRun ==
  /\ pc = "loop"
  /\ pc' = "idle"
  /\ \A k \in 1..Len(log') : log'[k].ok /\ log'[k].records = <<>>

\* C18: a run over a non-empty file set that extracts no assignment, no file
\* failing, ends with a message in the error state that says that no
\* assignments were found
C18_EmptyRunReported ==
  [][EndsEmptyRun =>
       /\ error' # Null
       /\ error'.lines # <<>>
       /\ error'.lines[1].lead = "No valid assignments found in the uploaded files"]_vars

\* a run of processFiles begins: the step puts the loop at the first file
RunBegins == pc' = "loop" /\ fileIdx' = 1 /\ fileIdx # 1

\* C28: at most one run of processFiles is active at any time: a run begins
\* only when none is in progress and isProcessing is false, isProcessing
\* holds exactly while a run is in progress, and during a run its file list
\* stays and extractedData is written by the end of that run only
C28_OneRunAtATime ==
  [][/\ RunBegins => pc = "idle" /\ ~isProcessing
     /\ isProcessing' <=> pc' = "loop"
     /\ pc = "loop" =>
          /\ runFiles' = runFiles
          /\ extractedData' # extractedData => pc' = "idle"]_vars

C28_Witness ==
  /\ pc = "loop"
  /\ isProcessing
  /\ fileIdx = 2
  /\ files # <<>>
  /\ files # runFiles

\* C27: every run of processFiles that has set isProcessing sets it back:
\* whenever isProcessing holds, a later state has it false, whether the files
\* of the run succeed or fail
C27_RunEnds == isProcessing ~> ~isProcessing

C27_Witness ==
  /\ ~isProcessing
  /\ pc = "idle"
  /\ Len(log) = 2
  /\ ~log[1].ok
  /\ log[2].ok

(***************************************************************************)
(* The clean-up functions applied to bounded lists of records.             *)
(***************************************************************************)
SampleTitles == {Str(<<W("Homework"), N(1)>>), Word("Quiz")}
SampleDues == {EmptyStr, Str(<<D(11, 20, 2026, FALSE)>>), Str(<<D(12, 5, 2026, FALSE)>>)}
SampleKinds == {<<Word("Homework"), EmptyStr>>, <<Word("Exam"), Word("chapter")>>}

\* the course of a record the component's parseTimelineSheet made: the
\* workbook of its file
SampleBooks ==
  {Workbook(<<Sheet("Schedule", <<>>)>>), Workbook(<<Sheet("Timeline", <<>>)>>)}

SampleRecords ==
  {Rec(t, d, Str(<<W("CS"), N(101)>>), k[2], k[1], Undef) :
     t \in SampleTitles, d \in SampleDues, k \in SampleKinds}
    \cup {Rec(Word("Quiz"), Str(<<D(12, 5, 2026, FALSE)>>), book, EmptyStr,
               Word("Homework"), Undef) : book \in SampleBooks}

AppIdle ==
  /\ files = <<>>
  /\ extractedData = <<>>
  /\ isProcessing = FALSE
  /\ error = Null
  /\ pc = "idle"
  /\ fileIdx = 0
  /\ allAssignments = <<>>
  /\ processingErrors = <<>>
  /\ runFiles = <<>>
  /\ variant = "app"
  /\ log = <<>>

InitFinalize ==
  /\ AppIdle
  /\ input \in SeqsUpTo(SampleRecords, MaxLen)
  /\ out1 = <<>>
  /\ out2 = <<>>
  /\ step = "start"

\* removeDuplicateAssignments(input)
DedupOnce ==
  /\ step = "start"
  /\ out1' = removeDuplicateAssignments(input)
  /\ step' = "dedup"
  /\ UNCHANGED <<input, out2>>
  /\ UNCHANGED appVars

\* the sort and inline de-duplication of the earlier processFiles
InlineOnce ==
  /\ step = "start"
  /\ out1' = InlineFinalize(input)
  /\ step' = "inline"
  /\ UNCHANGED <<input, out2>>
  /\ UNCHANGED appVars

\* the clean-up of processFiles applied to a list
FinalizeOnce ==
  /\ step = "start"
  /\ out1' = Finalize(input)
  /\ step' = "final1"
  /\ UNCHANGED <<input, out2>>
  /\ UNCHANGED appVars

\* the clean-up applied to its own output
FinalizeAgain ==
  /\ step = "final1"
  /\ out2' = Finalize(out1)
  /\ step' = "final2"
  /\ UNCHANGED <<input, out1>>
  /\ UNCHANGED appVars

NextFinalize == DedupOnce \/ InlineOnce \/ FinalizeOnce \/ FinalizeAgain

SpecFinalize == InitFinalize /\ [][NextFinalize]_vars

SameIdentity(a, b) ==
  a.title = b.title /\ a.dueDate = b.dueDate /\ a.course = b.course

\* C6: after de-duplication no two surviving records agree on title,
\* dueDate and course (records that agree on the three collapse into one,
\* whatever their description and type), in every de-duplication of the
\* repository
C6_SameKeyCollapses ==
  step \in {"dedup", "inline"} =>
    \A i, j \in 1..Len(out1) : i # j => ~SameIdentity(out1[i], out1[j])

\* the positions of s that no earlier position shares its key with
FirstPositions(s) ==
  {i \in 1..Len(s) : \A j \in 1..(i - 1) : DedupKey(s[j]) # DedupKey(s[i])}

RECURSIVE PickPositions(_, _, _)
PickPositions(s, P, i) ==
  IF i > Len(s) THEN <<>>
  ELSE IF i \in P THEN <<s[i]>> \o PickPositions(s, P, i + 1)
  ELSE PickPositions(s, P, i + 1)

\* C7: the survivors of removeDuplicateAssignments are, in input order, the
\* first record of every key: out1 is the subsequence of input at the
\* positions that no earlier position shares its key with
C7_FirstOccurrenceWins ==
  step = "dedup" => out1 = PickPositions(input, FirstPositions(input), 1)

C7_Witness ==
  /\ step = "dedup"
  /\ Len(input) = 3
  /\ DedupKey(input[1]) = DedupKey(input[3])
  /\ DedupKey(input[1]) # DedupKey(input[2])
  /\ input[1] # input[3]
  /\ out1 = <<input[1], input[2]>>

\* C8: the clean-up applied to its own output returns that output
C8_FinalizeIdempotent ==
  step = "final2" => out2 = out1

C8_Witness ==
  /\ step = "final2"
  /\ out1 # input
  /\ Len(out1) >= 2
  /\ out2 = out1

\* C26: removeDuplicateAssignments drops a record only when a record equal
\* to it in title, dueDate and course stays: every record of the input has a
\* record of its own title, dueDate and course in the output
C26_OnlyEqualTuplesMerge ==
  step = "dedup" =>
    \A i \in 1..Len(input) : \E j \in 1..Len(out1) : SameIdentity(input[i], out1[j])

(***************************************************************************)
(* The exported parsers applied to bounded inputs.                         *)
(***************************************************************************)
\* a row without cells, and a row with a cell JSON.stringify throws on
EmptyRow == [c \in {} |-> Undef]
CyclicRow == ("self" :> Cyclic) @@ ("Date" :> DateObj(<<2026, 11, 24>>))

\* a homework cell that names its due date, in a row dated later than today
\* and in a row dated before today, and a homework cell in a row without date
DueByRow ==
  ("Date" :> DateObj(<<2026, 11, 24>>))
    @@ (HWDue :> Str(<<W("HW"), N(4), W("due"), W("by"), D(12, 5, 2026, FALSE)>>))
PastDueByRow ==
  ("Date" :> DateObj(<<2026, 10, 1>>))
    @@ (HWDue :> Str(<<W("HW"), N(1), W("due"), W("by"), D(12, 5, 2026, FALSE)>>))
UndatedRow == (HWDue :> Word("Homework"))

\* a row with a homework cell, an activity cell and an exam named in its topic
MixedRow ==
  ("Date" :> DateObj(<<2026, 11, 24>>))
    @@ (HWDue :> Str(<<W("HW"), N(4)>>))
    @@ (PCDue :> Str(<<W("P&C"), W("Activity"), N(2)>>))
    @@ (LectureTopic :> Str(<<W("Midterm"), W("Exam")>>))

\* a row whose topic announces the review session of an exam
ReviewRow ==
  ("Date" :> DateObj(<<2026, 11, 24>>))
    @@ (LectureTopic :> Str(<<W("Midterm"), W("Exam"), W("Review")>>))

ParserRowSet ==
  XlsRowSet
    \cup {EmptyRow, CyclicRow, DueByRow, PastDueByRow, UndatedRow, MixedRow, ReviewRow}

\* what a caller can pass: null, a string, arrays of rows, workbooks of one
\* sheet, and an object whose SheetNames is no array
ParserInputs ==
  {Null, Word("Schedule"), [t |-> "object", SheetNames |-> Num(5)]}
    \cup {Arr(rows) : rows \in SeqsUpTo(ParserRowSet, MaxRows)}
    \cup {Workbook(<<Sheet("Schedule", rows)>>) : rows \in SeqsUpTo(ParserRowSet, MaxRows)}

SampleCourse == Str(<<W("CS"), N(101)>>)

InitParsers ==
  /\ AppIdle
  /\ input \in ParserInputs
  /\ out1 = <<>>
  /\ out2 = <<>>
  /\ step = "start"

\* parseTimelineSheet(input, courseName, currentYear)
ParseSheet ==
  /\ step = "start"
  /\ out1' = parseTimelineSheet(input, SampleCourse, CurrentYear)
  /\ step' = "sheet"
  /\ UNCHANGED <<input, out2>>
  /\ UNCHANGED appVars

\* parseCMP168Timeline(input)
ParseCMP168 ==
  /\ step = "start"
  /\ out1' = parseCMP168Timeline(input)
  /\ step' = "cmp168"
  /\ UNCHANGED <<input, out2>>
  /\ UNCHANGED appVars

NextParsers == ParseSheet \/ ParseCMP168

SpecParsers == InitParsers /\ [][NextParsers]_vars

\* the records of the rows of a sheet, every row taken on its own: a row
\* that fails or holds no assignment gives none
RECURSIVE EachRowAlone(_)
EachRowAlone(rows) ==
  IF rows = <<>> THEN <<>>
  ELSE (IF Unserialisable(Head(rows)) THEN <<>>
        ELSE SheetRow(Head(rows), SampleCourse, CurrentYear))
       \o EachRowAlone(Tail(rows))

\* C4: the list parseTimelineSheet returns for an array of rows is exactly
\* the records of its rows taken one by one, so that a failing row costs its
\* own records only
C4_FailingRowSkippedAlone ==
  step = "sheet" /\ input.t = "array" /\ out1.ok =>
    out1.val = CleanCopies(EachRowAlone(input.items))

\* an internal step of the parser fails on this input
RECURSIVE SomeRowThrows(_)
SomeRowThrows(rows) ==
  /\ rows # <<>>
  /\ \/ CMPRowReached(Head(rows)) /\ CMPRowThrows(Head(rows))
     \/ SomeRowThrows(Tail(rows))

StepFails ==
  IF step = "sheet"
    THEN input.t = "array" /\ \E k \in 1..Len(input.items) : Unserialisable(input.items[k])
  ELSE /\ "SheetNames" \in DOMAIN input
       /\ input.SheetNames.t = "array"
       /\ SomeRowThrows(input.SheetNames.items[1].rows)

\* C5: parseTimelineSheet and parseCMP168Timeline return a list for every
\* input and throw for none, and the list is empty when an internal step
\* failed
C5_ParsersNeverThrow ==
  step \in {"sheet", "cmp168"} =>
    out1.ok /\ (StepFails => out1.val = <<>>)

\* the homework cell reads "HW n due by M/D/YYYY"
IsHomeworkDueBy(cell) ==
  /\ cell.t = "string"
  /\ Len(cell.w) = 5
  /\ IsWord(cell.w[1], "hw") /\ cell.w[2].k = "n"
  /\ IsWord(cell.w[3], "due") /\ IsWord(cell.w[4], "by")
  /\ cell.w[5].k = "d" /\ cell.w[5].y >= 1000

\* the sheet is the one row: its Date cell, and its homework cell "HW n due
\* by M/D/YYYY" with a due date later than today
OneDueByRow(v) ==
  /\ v.t = "array"
  /\ Len(v.items) = 1
  /\ DOMAIN v.items[1] = {"Date", HWDue}
  /\ v.items[1]["Date"].t = "date"
  /\ IsHomeworkDueBy(v.items[1][HWDue])
  /\ DateLT(Today, <<v.items[1][HWDue].w[5].y, v.items[1][HWDue].w[5].m,
                     v.items[1][HWDue].w[5].d>>)

\* C15: a row dated later than today whose homework cell reads "HW n due by
\* M/D/YYYY" gives exactly one record, titled "Homework n", of type
\* "Homework", due on the date the cell names
C15_HomeworkDueBy ==
  step = "sheet" /\ OneDueByRow(input) /\ DateLT(Today, input.items[1]["Date"].d) =>
    /\ out1.ok
    /\ Len(out1.val) = 1
    /\ JSToString(out1.val[1].title)
         = "Homework " \o ToString(input.items[1][HWDue].w[2].n)
    /\ JSToString(out1.val[1].type) = "Homework"
    /\ JSToString(out1.val[1].dueDate) = RenderTok(input.items[1][HWDue].w[5])

\* C19: a row whose own date is before today still gives a record when its
\* homework cell names a due date later than today, and the record is due on
\* that date
C19_ExplicitDateOverridesPastRow ==
  step = "sheet" /\ OneDueByRow(input) /\ DateLT(input.items[1]["Date"].d, Today) =>
    /\ out1.ok
    /\ \E i \in 1..Len(out1.val) :
         JSToString(out1.val[i].dueDate) = RenderTok(input.items[1][HWDue].w[5])

\* the records of a row under the date of an earlier row
CarriedRow(row, dateValue) ==
  DatedRow(row, SampleCourse, parseDate(dateValue, CurrentYear))

\* C20: the second row of a sheet, when it has no date of its own, is read
\* under the date of the first row, so that the sheet gives the records of
\* the first row and then those of the second row under that date
C20_DateCarriedForward ==
  /\ step = "sheet"
  /\ input.t = "array"
  /\ Len(input.items) = 2
  /\ out1.ok
  /\ \A i \in 1..2 : DOMAIN input.items[i] # {} /\ ~Unserialisable(input.items[i])
  /\ Truthy(FindRowDate(input.items[1], CurrentYear))
  /\ ~Truthy(FindRowDate(input.items[2], CurrentYear))
  => out1.val = CleanCopies(
       SheetRow(input.items[1], SampleCourse, CurrentYear)
         \o CarriedRow(input.items[2], FindRowDate(input.items[1], CurrentYear)))

\* the row is dated later than today and holds a homework cell, an activity
\* cell and a topic cell that names an exam
IsMixedRow(row) ==
  /\ {"Date", HWDue, PCDue, LectureTopic} \subseteq DOMAIN row
  /\ row["Date"].t = "date" /\ DateLT(Today, row["Date"].d)
  /\ row[HWDue].t = "string" /\ Includes(row[HWDue], "hw")
  /\ row[PCDue].t = "string" /\ Includes(row[PCDue], "p&c")
  /\ row[LectureTopic].t = "string" /\ Includes(row[LectureTopic], "exam")

\* a record of one of the types is in the list
HasType(records, types) ==
  \E i \in 1..Len(records) : JSToString(records[i].type) \in types

\* C22: a row with a homework cell, an activity cell and an exam named in its
\* topic cell gives a homework record, an activity record and an exam record:
\* no type found keeps another from being read
C22_TypesIndependent ==
  /\ step = "sheet"
  /\ input.t = "array"
  /\ Len(input.items) = 1
  /\ IsMixedRow(input.items[1])
  => /\ out1.ok
     /\ HasType(out1.val, {"Homework"})
     /\ HasType(out1.val, {"P&C Activity"})
     /\ HasType(out1.val, {"Exam", "Midterm Exam", "Final Exam"})

\* the rows a parser is given: the array itself, or the first sheet
InputRows(v) ==
  IF v.t = "array" THEN v.items
  ELSE IF v.t = "object" /\ v.SheetNames.t = "array" THEN v.SheetNames.items[1].rows
  ELSE <<>>

\* the cell names an exam but only its review, its buffer or its opening
ReviewOnly(cell) ==
  /\ cell.t = "string"
  /\ IncludesAny(cell, {"exam", "midterm", "final"})
  /\ IncludesAny(cell, {"review", "buffer", "opens"})
  /\ ~IncludesAny(cell, {"due", "closes"})

\* the row is a date later than today and one such cell
IsReviewRow(row) ==
  /\ DOMAIN row = {"Date", LectureTopic}
  /\ row["Date"].t = "date" /\ DateLT(Today, row["Date"].d)
  /\ ReviewOnly(row[LectureTopic])

\* C24: a row whose only exam-related cell mentions "review", "buffer" or
\* "opens" and neither "due" nor "closes" gives no exam record, from
\* parseTimelineSheet and from parseCMP168Timeline
C24_ReviewGivesNoExam ==
  /\ step \in {"sheet", "cmp168"}
  /\ Len(InputRows(input)) = 1
  /\ IsReviewRow(InputRows(input)[1])
  => /\ out1.ok
     /\ ~HasType(out1.val, {"Exam", "Midterm Exam", "Final Exam"})

(***************************************************************************)
(* TimelineParser.js: the due-date helpers and processTimelineExcelFile.   *)
(***************************************************************************)
\* /due\s+by\s+(\d{1,2})\/(\d{1,2})(?:\/(\d{2,4}))?/i at position i of w
DueByHere(w, i) ==
  IsWord(w[i], "due") /\ IsWord(w[i + 1], "by") /\ w[i + 2].k = "d"

\* the position of the first match, 0 for no match
DueByAt(w) ==
  IF \E i \in 1..(Len(w) - 2) : DueByHere(w, i)
  THEN CHOOSE i \in 1..(Len(w) - 2) :
         /\ DueByHere(w, i)
         /\ \A j \in 1..(i - 1) : ~DueByHere(w, j)
  ELSE 0

\* const dueDate = new Date(rowDate); dueDate.setDate(dueDate.getDate() + days)
DaysLater(rowDate, days) ==
  IF rowDate.d = NaD THEN DateObj(NaD)
  ELSE DateObj(CivilFromDays(
         DaysFromCivil(rowDate.d[1], rowDate.d[2], rowDate.d[3]) + days))

\* the explicit "due by" date of the cell, else the row date plus the lead
DueByOrLater(w, i, rowDate, days) ==
  IF i # 0 THEN PatternDate(w[i + 2])
  ELSE IF Truthy(rowDate) THEN DaysLater(rowDate, days)
  ELSE Null

parsePCActivityDueDate(cellText, rowDate, sheetYear) ==
  IF ~Truthy(cellText) THEN Null
  ELSE DueByOrLater(cellText.w, DueByAt(cellText.w), rowDate, 7)

parseHomeworkDueDate(cellText, rowDate, sheetYear) ==
  IF ~Truthy(cellText) THEN Null
  ELSE DueByOrLater(cellText.w, DueByAt(cellText.w), rowDate, 14)

\* /(\d{1,2})\/(\d{1,2})(?:\/(\d{4}))?/: the year of the literal when it has
\* four digits, else the year of the sheet
ExamDateOf(w, i, rowDate, sheetYear) ==
  IF i # 0
    THEN DateObj(MakeDate(IF w[i].y >= 1000 THEN w[i].y ELSE TwoDigitYear(sheetYear),
                          w[i].m, w[i].d))
  ELSE IF Truthy(rowDate) THEN rowDate
  ELSE Null

examType(cellText) ==
  IF Includes(cellText, "midterm") THEN Str(<<W("Midterm"), W("Exam")>>)
  ELSE IF Includes(cellText, "final") THEN Str(<<W("Final"), W("Exam")>>)
  ELSE IF Includes(cellText, "exam") THEN Word("Exam")
  ELSE Null

ExamInfo(dueDate, type) ==
  IF dueDate = Null \/ dueDate.d = NaD THEN Null
  ELSE [t |-> "object", date |-> dueDate, type |-> type]

parseExamDate(cellText, rowDate, sheetYear) ==
  IF ~Truthy(cellText) THEN Null
  ELSE IF /\ \E word \in {"review", "buffer", "opens"} : Includes(cellText, word)
          /\ ~\E word \in {"due", "closes"} : Includes(cellText, word)
    THEN Null
  ELSE IF examType(cellText) = Null THEN Null
  ELSE ExamInfo(ExamDateOf(cellText.w, FirstDateTok(cellText.w), rowDate, sheetYear),
                examType(cellText))

\* /(\d{1,2})\/(\d{1,2})\/(\d{4})/: the first date literal with a four-digit year
FullDateAt(w) ==
  IF \E i \in 1..Len(w) : w[i].k = "d" /\ w[i].y >= 1000
  THEN CHOOSE i \in 1..Len(w) :
         /\ w[i].k = "d" /\ w[i].y >= 1000
         /\ \A j \in 1..(i - 1) : ~(w[j].k = "d" /\ w[j].y >= 1000)
  ELSE 0

Weekdays ==
  {"monday", "tuesday", "wednesday", "thursday", "friday", "saturday", "sunday"}

\* /(?:monday|...|sunday)\s+(\d{1,2})\/(\d{1,2})(?:\/(\d{4}))?/i at position i
WeekdayDateHere(w, i) ==
  w[i].k = "w" /\ Lower(w[i].s) \in Weekdays /\ w[i + 1].k = "d"

\* the position of the date literal of the first match, 0 for no match
WeekdayDateAt(w) ==
  IF \E i \in 1..(Len(w) - 1) : WeekdayDateHere(w, i)
  THEN 1 + (CHOOSE i \in 1..(Len(w) - 1) :
              /\ WeekdayDateHere(w, i)
              /\ \A j \in 1..(i - 1) : ~WeekdayDateHere(w, j))
  ELSE 0

ProjectDateOf(cellText, full, weekday, rowDate, sheetYear) ==
  IF full # 0
    THEN DateObj(MakeDate(cellText.w[full].y, cellText.w[full].m, cellText.w[full].d))
  ELSE IF weekday # 0
    THEN DateObj(MakeDate(TwoDigitYear(sheetYear),
                          cellText.w[weekday].m, cellText.w[weekday].d))
  ELSE IF Includes(cellText, "due") /\ Truthy(rowDate) THEN DaysLater(rowDate, 21)
  ELSE Null

parseProjectDueDate(cellText, rowDate, sheetYear) ==
  IF ~Truthy(cellText) THEN Null
  ELSE IF ~Includes(cellText, "project") THEN Null
  ELSE ProjectDateOf(cellText, FullDateAt(cellText.w), WeekdayDateAt(cellText.w),
                     rowDate, sheetYear)

\* the rows of sheet_to_json(sheet, {header: 1}) are arrays: functions from
\* the indexes 0, 1, ... to cells, a missing index being a hole
ColumnIndexes == <<0, 1, 2, 3, 4, 5, 6, 7, 8, 9, 10, 11, 12, 13>>

At(row, j) == IF j \in DOMAIN row THEN row[j] ELSE Undef

\* cell && typeof cell === "string"
IsText(cell) == cell.t = "string" /\ cell.w # <<>>

\* /a.*b/i.test(cell)
WordBefore(cell, a, b) ==
  \E i \in 1..Len(cell.w) : \E j \in (i + 1)..Len(cell.w) :
    IsWord(cell.w[i], a) /\ IsWord(cell.w[j], b)

\* the tests on a cell of the header row
HeaderKind(cell, kind) ==
  CASE kind = "topic" -> IncludesAny(cell, {"topic", "lecture"})
    [] kind = "pc" -> WordBefore(cell, "p&c", "due")
    [] kind = "hw" -> WordBefore(cell, "hw", "due") \/ WordBefore(cell, "homework", "due")
    [] kind = "project" -> WordBefore(cell, "project", "due")
    [] kind = "exam" -> IncludesAny(cell, {"exam", "midterm", "final"})
    [] kind = "date" -> Includes(cell, "date")

HeaderKinds == {"topic", "pc", "hw", "project", "exam", "date"}

ColumnsOf(row, kind) ==
  SelectSeq(ColumnIndexes,
            LAMBDA j : IsText(At(row, j)) /\ HeaderKind(At(row, j), kind))

foundHeader(row) == \E kind \in HeaderKinds : ColumnsOf(row, kind) # <<>>

\* the position of the header row among the first ten rows, 0 for none
headerRowIndex(jsonData) ==
  IF \E i \in 1..Len(jsonData) : i <= 10 /\ foundHeader(jsonData[i])
  THEN CHOOSE i \in 1..Len(jsonData) :
         /\ foundHeader(jsonData[i])
         /\ \A k \in 1..(i - 1) : ~foundHeader(jsonData[k])
  ELSE 0

OrDefault(found, default) == IF found = <<>> THEN default ELSE found

topicColumn(headerRow) ==
  IF ColumnsOf(headerRow, "topic") = <<>> THEN 5
  ELSE ColumnsOf(headerRow, "topic")[Len(ColumnsOf(headerRow, "topic"))]

\* the column mapping: what the header row names, else the default positions
ColumnMapping(headerRow) ==
  [pc |-> OrDefault(ColumnsOf(headerRow, "pc"), <<10>>),
   hw |-> OrDefault(ColumnsOf(headerRow, "hw"), <<11>>),
   topic |-> topicColumn(headerRow),
   project |-> OrDefault(ColumnsOf(headerRow, "project"), <<12, 13>>),
   exam |-> OrDefault(ColumnsOf(headerRow, "exam"), <<topicColumn(headerRow)>>),
   date |-> OrDefault(ColumnsOf(headerRow, "date"), <<3, 6>>)]

\* the first date column of the row that holds a Date
RowDateContext(row, dateColumns) ==
  FirstCell(row, SelectSeq(dateColumns, LAMBDA c : At(row, c).t = "date"))

\* cell.replace(/due\s+by\s+\d{1,2}\/\d{1,2}(?:\/\d{2,4})?/i, "").trim()
StripDueBy(w, i) ==
  IF i = 0 THEN w ELSE SubSeq(w, 1, i - 1) \o SubSeq(w, i + 3, Len(w))

\* .replace(/^p&c\s+activity\s*/i, "P&C Activity ").replace(/^hw\s*/i, "Homework ")
StandardPrefix(w) ==
  IF Len(w) >= 2 /\ IsWord(w[1], "p&c") /\ IsWord(w[2], "activity")
    THEN <<W("P&C"), W("Activity")>> \o SubSeq(w, 3, Len(w))
  ELSE IF w # <<>> /\ IsWord(w[1], "hw") THEN <<W("Homework")>> \o Tail(w)
  ELSE w

\* the record of a cell with its due date: kept when the date is not past
DueRecord(title, dueDate, courseName, description, type, file) ==
  IF Truthy(dueDate) /\ ~isDateInPast(dueDate)
    THEN <<Rec(title, formatDate(dueDate), courseName, description, type,
               NameStr(file))>>
  ELSE <<>>

PCActivityOf(cell, rowDate, topic, sheetYear, courseName, file) ==
  IF ~IsText(cell) \/ ~Includes(cell, "p&c") THEN <<>>
  ELSE DueRecord(Str(StandardPrefix(StripDueBy(cell.w, DueByAt(cell.w)))),
                 parsePCActivityDueDate(cell, rowDate, sheetYear),
                 courseName, topic, Str(<<W("P&C"), W("Activity")>>), file)

HomeworkCellOf(cell, rowDate, topic, sheetYear, courseName, file) ==
  IF ~IsText(cell) THEN <<>>
  ELSE IF NumberAfter(cell.w, {"hw"}) = 0 /\ ~Includes(cell, "homework") THEN <<>>
  ELSE DueRecord(Str(StripDueBy(cell.w, DueByAt(cell.w))),
                 parseHomeworkDueDate(cell, rowDate, sheetYear),
                 courseName, topic, Word("Homework"), file)

\* `${topic} - ${cell}`
TopicAndCell(topic, cell) == Str(StringTokens(topic) \o <<W("-")>> \o cell.w)

ProjectCellOf(cell, rowDate, topic, sheetYear, courseName, file) ==
  IF ~IsText(cell) \/ ~Includes(cell, "project") THEN <<>>
  ELSE DueRecord(NumberedTitle("Project", cell, {"project"}),
                 parseProjectDueDate(cell, rowDate, sheetYear),
                 courseName, TopicAndCell(topic, cell), Word("Project"), file)

ExamRecord(examInfo, cell, courseName, file) ==
  IF examInfo = Null THEN <<>>
  ELSE DueRecord(examInfo.type, examInfo.date, courseName, cell, examInfo.type, file)

ExamCellOf(cell, rowDate, sheetYear, courseName, file) ==
  IF ~IsText(cell) THEN <<>>
  ELSE ExamRecord(parseExamDate(cell, rowDate, sheetYear), cell, courseName, file)

\* the records of the cells of the row in the columns of one kind
RECURSIVE CellsOfKind(_, _, _, _, _, _, _, _)
CellsOfKind(kind, columns, row, rowDate, topic, sheetYear, courseName, file) ==
  IF columns = <<>> THEN <<>>
  ELSE (CASE kind = "pc" ->
               PCActivityOf(At(row, Head(columns)), rowDate, topic, sheetYear,
                            courseName, file)
          [] kind = "hw" ->
               HomeworkCellOf(At(row, Head(columns)), rowDate, topic, sheetYear,
                              courseName, file)
          [] kind = "project" ->
               ProjectCellOf(At(row, Head(columns)), rowDate, topic, sheetYear,
                             courseName, file)
          [] kind = "exam" ->
               ExamCellOf(At(row, Head(columns)), rowDate, sheetYear, courseName,
                          file))
       \o CellsOfKind(kind, Tail(columns), row, rowDate, topic, sheetYear,
                      courseName, file)

\* one row after the header row
FileRowWith(row, mapping, rowDate, topic, sheetYear, courseName, file) ==
  CellsOfKind("pc", mapping.pc, row, rowDate, topic, sheetYear, courseName, file)
    \o CellsOfKind("hw", mapping.hw, row, rowDate, topic, sheetYear, courseName, file)
    \o CellsOfKind("project", mapping.project, row, rowDate, topic, sheetYear,
                   courseName, file)
    \o CellsOfKind("exam", mapping.exam, row, rowDate, topic, sheetYear,
                   courseName, file)

FileRow(row, mapping, sheetYear, courseName, file) ==
  FileRowWith(row, mapping, RowDateContext(row, mapping.date),
              OrElse(At(row, mapping.topic), EmptyStr), sheetYear, courseName, file)

RECURSIVE FileRows(_, _, _, _, _)
FileRows(rows, mapping, sheetYear, courseName, file) ==
  IF rows = <<>> THEN <<>>
  ELSE FileRow(Head(rows), mapping, sheetYear, courseName, file)
       \o FileRows(Tail(rows), mapping, sheetYear, courseName, file)

\* sheetName.match(/(\d{4})_(Spring|Fall|Summer)/) on the sheet names of the
\* model: the year, 0 for no match
SheetYearOf(sheetName) ==
  CASE sheetName = "2025_Fall" -> 2025
    [] sheetName = "2027_Spring" -> 2027
    [] OTHER -> 0

SemesterOf(sheetName) ==
  CASE sheetName = "2025_Fall" -> "Fall"
    [] sheetName = "2027_Spring" -> "Spring"
    [] OTHER -> "Unknown"

\* the comparator of the sheet order: current and future years first, then
\* the later year first
CompareSheets(a, b, currentYear) ==
  IF SheetYearOf(a.name) >= currentYear /\ SheetYearOf(b.name) < currentYear THEN -1
  ELSE IF SheetYearOf(a.name) < currentYear /\ SheetYearOf(b.name) >= currentYear THEN 1
  ELSE SheetYearOf(b.name) - SheetYearOf(a.name)

\* [...workbook.SheetNames].sort(...): the comparator is a total preorder,
\* so the result is the stable order
RECURSIVE InsertSheet(_, _, _)
InsertSheet(sorted, sheet, currentYear) ==
  IF sorted = <<>> THEN <<sheet>>
  ELSE IF CompareSheets(sorted[Len(sorted)], sheet, currentYear) <= 0
    THEN Append(sorted, sheet)
  ELSE Append(InsertSheet(SubSeq(sorted, 1, Len(sorted) - 1), sheet, currentYear),
              sorted[Len(sorted)])

RECURSIVE sortedSheets(_, _)
sortedSheets(sheets, currentYear) ==
  IF sheets = <<>> THEN <<>>
  ELSE InsertSheet(sortedSheets(SubSeq(sheets, 1, Len(sheets) - 1), currentYear),
                   sheets[Len(sheets)], currentYear)

\* courseCodeMatch[0] of file.name.match(/([A-Z]{2,4})\s*(\d{3,4})/i), else the
\* name up to its first dot
CourseCodeText(file) ==
  CASE file.base = "CMP168_Timeline" -> "CMP168"
    [] OTHER -> file.base

\* `${courseCode} ${semester} ${sheetYear}`
CourseOfSheet(file, sheetName, sheetYear) ==
  Str(<<W(CourseCodeText(file)), W(SemesterOf(sheetName)), N(sheetYear)>>)

SheetWith(sheet, header, sheetYear, file) ==
  FileRows(SubSeq(sheet.rows, header + 1, Len(sheet.rows)),
           ColumnMapping(IF header = 0 THEN <<>> ELSE sheet.rows[header]),
           sheetYear, CourseOfSheet(file, sheet.name, sheetYear), file)

\* one sheet: a sheet named for a past year is left out
FileSheet(sheet, currentYear, file) ==
  IF SheetYearOf(sheet.name) = 0
    THEN SheetWith(sheet, headerRowIndex(sheet.rows), currentYear, file)
  ELSE IF SheetYearOf(sheet.name) < currentYear THEN <<>>
  ELSE SheetWith(sheet, headerRowIndex(sheet.rows), SheetYearOf(sheet.name), file)

RECURSIVE FileSheets(_, _, _)
FileSheets(sheets, currentYear, file) ==
  IF sheets = <<>> THEN <<>>
  ELSE FileSheet(Head(sheets), currentYear, file)
       \o FileSheets(Tail(sheets), currentYear, file)

\* processTimelineExcelFile(file, XLSX): the value the promise resolves to,
\* or the message it is rejected with
processTimelineExcelFile(file, content) ==
  IF file = Null THEN Throw("No file provided")
  ELSE IF content.t = "unreadable" THEN Throw("Failed to process Excel file")
  ELSE Return(removeDuplicateAssignments(
         FileSheets(sortedSheets(content.SheetNames.items, CurrentYear),
                    CurrentYear, file)))

(***************************************************************************)
(* The functions of DateUtils.js applied to bounded inputs.                *)
(***************************************************************************)
Yesterday == CivilFromDays(DaysFromCivil(Today[1], Today[2], Today[3]) - 1)

\* days from two days ago to tomorrow, at midnight, noon and 23:59
DayOffsets == -2..1
SampleMinutes == {0, 720, 1439}
SampleDates ==
  {DateAt(CivilFromDays(DaysFromCivil(Today[1], Today[2], Today[3]) + k), min) :
     k \in DayOffsets, min \in SampleMinutes}

\* date strings M/D/Y and MM/DD/Y with two-digit and four-digit years, on
\* either side of the five-year window around the current year
SampleMonths == {2, 3, 11}
SampleDays == {2, 3, 5, 29}
SampleYears == {24, 87, 1987, 2020, 2021, 2026, 2031, 2032}
SampleDateStrings ==
  {Str(<<D(m, d, y, pad)>>) :
     m \in SampleMonths, d \in SampleDays, y \in SampleYears, pad \in BOOLEAN}

\* serial day counts of a sheet read without cellDates (18 February 1982 and
\* 24 November 2026), and date literals followed by a word, which the browser
\* does not parse by itself
SampleSerials == {Num(30000), Num(46350)}
SampleTexts ==
  {Str(<<D(m, 5, y, FALSE), W("extra")>>) : m \in SampleMonths, y \in SampleYears}

InitDates ==
  /\ AppIdle
  /\ input \in SampleDates \cup SampleDateStrings \cup SampleSerials \cup SampleTexts
  /\ out1 = <<>>
  /\ out2 = <<>>
  /\ step = "start"

\* isDateInPast(input)
InPastOnce ==
  /\ step = "start"
  /\ out1' = Bool(isDateInPast(input))
  /\ step' = "past"
  /\ UNCHANGED <<input, out2>>
  /\ UNCHANGED appVars

\* parseDate(input)
ParseOnce ==
  /\ step = "start"
  /\ out1' = parseDate(input, CurrentYear)
  /\ step' = "parse"
  /\ UNCHANGED <<input, out2>>
  /\ UNCHANGED appVars

\* formatDate(parseDate(input))
RoundTrip ==
  /\ step = "start"
  /\ out1' = formatDate(parseDate(input, CurrentYear))
  /\ step' = "round"
  /\ UNCHANGED <<input, out2>>
  /\ UNCHANGED appVars

NextDates == InPastOnce \/ ParseOnce \/ RoundTrip

SpecDates == InitDates /\ [][NextDates]_vars

\* the text is one date literal M/D/Y of the calendar
IsDateText(v) ==
  /\ v.t = "string"
  /\ Len(v.w) = 1
  /\ v.w[1].k = "d"
  /\ MakeDate(v.w[1].y, v.w[1].m, v.w[1].d) = <<v.w[1].y, v.w[1].m, v.w[1].d>>

\* the calendar day a sample input names
DayNamed(v) ==
  IF v.t = "date" THEN v.d
  ELSE IF v.t = "number" THEN SerialToDate(v.n)
  ELSE <<EngineYear(v.w[1].y), v.w[1].m, v.w[1].d>>

\* C11: isDateInPast is false for every date of today's calendar day, at any
\* time of the day, and true for every date of the previous calendar day
C11_TodayNotPastYesterdayPast ==
  step = "past" =>
    /\ DayNamed(input) = Today => out1 = Bool(FALSE)
    /\ DayNamed(input) = Yesterday => out1 = Bool(TRUE)

C11_Witness ==
  /\ step = "past"
  /\ input = DateAt(Today, 1439)
  /\ out1 = Bool(FALSE)

\* C13: for every valid un-padded M/D/YYYY string s, of any year,
\* formatDate(parseDate(s)) is s
C13_RoundTrip ==
  step = "round" /\ IsDateText(input) /\ IsFormatted(input) /\ ~input.w[1].pad =>
    /\ out1.t = "string"
    /\ Join(out1.w) = Join(input.w)

\* C14: parseDate gives a two-digit year below 50 the year 2000 + yy and any
\* other two-digit year the year 1900 + yy
C14_TwoDigitYear ==
  step = "parse" /\ IsDateText(input) /\ input.w[1].y < 100 =>
    /\ out1.t = "date"
    /\ out1.d[1] = (IF input.w[1].y < 50 THEN 2000 ELSE 1900) + input.w[1].y

\* C23: a date parseDate parses from a number or a string has a year within
\* five years of the context year: a year further away is replaced by the
\* context year, whichever branch read the date
C23_YearWithinFiveOfContext ==
  step = "parse" /\ input.t # "date" /\ out1.t = "date" /\ out1.d # NaD =>
    Abs(out1.d[1] - CurrentYear) <= 5


(***************************************************************************)
(* processTimelineExcelFile applied to bounded workbooks.                  *)
(***************************************************************************)
\* a row of the layout Date, Topic, HW Due, P&C Due, Project Due
Row5(date, topic, hw, activity, project) ==
  (0 :> date) @@ (1 :> topic) @@ (2 :> hw) @@ (3 :> activity) @@ (4 :> project)

TitleRow ==
  Row5(Word("Date"), Word("Topic"), Str(<<W("HW"), W("Due")>>),
       Str(<<W("P&C"), W("Due")>>), Str(<<W("Project"), W("Due")>>))

\* the row of column titles of the CMP 168 timeline
LongTitleRow ==
  Row5(Word("Date"), Word("Topic"),
       Str(<<W("HW"), W("Due"), W("By"), W("11:59"), W("PM"), W("On"),
             W("Specified"), W("Date")>>),
       Str(<<W("P&C"), W("Due"), W("By"), W("11:59"), W("PM"), W("On"),
             W("Specified"), W("Date")>>),
       Str(<<W("Project"), W("Due")>>))

Oct25 == <<2026, 10, 25>>
Nov24 == <<2026, 11, 24>>
Oct1Day == <<2026, 10, 1>>

FileRowSet ==
  {Row5(DateObj(Oct25), Word("Recursion"), Str(<<W("HW"), N(3)>>), Undef, Undef),
   Row5(DateObj(Nov24), Word("Recursion"),
        Str(<<W("HW"), N(4), W("due"), W("by"), D(12, 5, 2026, FALSE)>>), Undef, Undef),
   Row5(DateObj(Oct1Day), Str(<<W("Midterm"), W("Exam")>>), Undef,
        Str(<<W("P&C"), W("Activity"), N(2)>>), Undef),
   Row5(DateObj(Nov24), Undef, Undef, Str(<<W("P&C"), W("Activity"), N(2)>>),
        Str(<<W("PROJECT"), N(1), W("DUE")>>)),
   Row5(DateObj(Oct1Day), Undef,
        Str(<<W("HW"), N(1), W("due"), W("by"), D(12, 5, 2026, FALSE)>>), Undef, Undef),
   Row5(Undef, Str(<<W("Final"), W("Exam"), D(12, 15, 2026, FALSE)>>), Undef, Undef,
        Undef),
   (3 :> DateObj(Nov24)) @@ (11 :> Str(<<W("HW"), N(5)>>))}

TimelineSheetNames == {"Schedule", "2025_Fall", "2027_Spring"}

\* workbooks of one sheet, with and without a title row, and of two sheets
TimelineWorkbooks ==
  {Unreadable}
    \cup {Workbook(<<Sheet(name, rows)>>) :
            name \in TimelineSheetNames, rows \in SeqsUpTo(FileRowSet, MaxRows)}
    \cup {Workbook(<<Sheet(name, <<TitleRow>> \o rows)>>) :
            name \in TimelineSheetNames, rows \in SeqsUpTo(FileRowSet, MaxRows)}
    \cup {Workbook(<<Sheet("Schedule", <<TitleRow, r>>),
                     Sheet("2027_Spring", <<TitleRow, q>>)>>) :
            r \in FileRowSet, q \in FileRowSet}
    \cup {Workbook(<<Sheet("Schedule", <<LongTitleRow>> \o rows)>>) :
            rows \in SeqsUpTo(FileRowSet, MaxRows)}

\* headerRow[i]?.toString().toLowerCase() || ""
HeaderText(cell) ==
  IF cell = Undef \/ cell = Null THEN EmptyStr ELSE Str(StringTokens(cell))

InSeq(s, x) == \E k \in 1..Len(s) : s[k] = x

\* the if / else-if chain of the first pass on the header cell of column i
HeaderCell(columnMap, header, i) ==
  IF Includes(header, "date") THEN [columnMap EXCEPT !.dateColumn = i]
  ELSE IF Includes(header, "lec") /\ Includes(header, "#")
    THEN [columnMap EXCEPT !.lectureColumn = i]
  ELSE IF Includes(header, "lab") /\ Includes(header, "#")
    THEN [columnMap EXCEPT !.labColumn = i]
  ELSE IF Includes(header, "hw") /\ Includes(header, "due")
    THEN [columnMap EXCEPT !.hwDueColumns = Append(@, i)]
  ELSE IF Includes(header, "p&c") /\ Includes(header, "due")
    THEN [columnMap EXCEPT !.pcDueColumns = Append(@, i)]
  ELSE IF Includes(header, "project")
    THEN [columnMap EXCEPT !.projectColumns = Append(@, i)]
  ELSE IF IncludesAny(header, {"exam", "midterm", "final"})
    THEN [columnMap EXCEPT !.examColumns = Append(@, i)]
  ELSE IF Includes(header, "topic")
    THEN [columnMap EXCEPT !.topicColumns = Append(@, i)]
  ELSE columnMap

RECURSIVE HeaderPass(_, _, _)
HeaderPass(columnMap, headerRow, cols) ==
  IF cols = <<>> THEN columnMap
  ELSE HeaderPass(HeaderCell(columnMap, HeaderText(At(headerRow, Head(cols))), Head(cols)),
                  headerRow, Tail(cols))

\* the if / else-if chain of the second pass on the cell of column colIdx
BodyCell(columnMap, cell, colIdx) ==
  IF IncludesAny(cell, {"hw", "homework"}) /\ ~InSeq(columnMap.hwDueColumns, colIdx)
    THEN [columnMap EXCEPT !.hwDueColumns = Append(@, colIdx)]
  ELSE IF Includes(cell, "p&c") /\ ~InSeq(columnMap.pcDueColumns, colIdx)
    THEN [columnMap EXCEPT !.pcDueColumns = Append(@, colIdx)]
  ELSE IF IncludesAny(cell, {"project", "proj"})
          /\ ~InSeq(columnMap.projectColumns, colIdx)
    THEN [columnMap EXCEPT !.projectColumns = Append(@, colIdx)]
  ELSE IF IncludesAny(cell, {"exam", "midterm", "final"})
          /\ ~InSeq(columnMap.examColumns, colIdx)
    THEN [columnMap EXCEPT !.examColumns = Append(@, colIdx)]
  ELSE columnMap

RECURSIVE BodyRow(_, _, _)
BodyRow(columnMap, row, cols) ==
  IF cols = <<>> THEN columnMap
  ELSE BodyRow(BodyCell(columnMap, HeaderText(At(row, Head(cols))), Head(cols)),
               row, Tail(cols))

\* for (let rowIdx = 1; rowIdx < Math.min(5, jsonData.length); rowIdx++)
RECURSIVE BodyPass(_, _, _)
BodyPass(columnMap, jsonData, rowIdx) ==
  IF rowIdx >= 5 \/ rowIdx >= Len(jsonData) THEN columnMap
  ELSE BodyPass(BodyRow(columnMap, jsonData[rowIdx + 1], ColumnIndexes),
                jsonData, rowIdx + 1)

\* the fallback of the date column, and the second pass when a list is empty
AfterHeader(columnMap, jsonData) ==
  IF columnMap.hwDueColumns = <<>> \/ columnMap.pcDueColumns = <<>>
    THEN BodyPass(columnMap, jsonData, 1)
  ELSE columnMap

DateFallback(columnMap) ==
  IF columnMap.dateColumn = -1 THEN [columnMap EXCEPT !.dateColumn = 1] ELSE columnMap

EmptyColumnMap ==
  [dateColumn |-> -1, lectureColumn |-> -1, labColumn |-> -1, hwDueColumns |-> <<>>,
   pcDueColumns |-> <<>>, projectColumns |-> <<>>, examColumns |-> <<>>,
   topicColumns |-> <<>>]

analyzeSheetStructure(jsonData) ==
  IF jsonData = <<>> THEN EmptyColumnMap
  ELSE AfterHeader(DateFallback(HeaderPass(EmptyColumnMap, jsonData[1], ColumnIndexes)),
                   jsonData)

InitTimelineFile ==
  /\ AppIdle
  /\ input \in TimelineWorkbooks
  /\ out1 = <<>>
  /\ out2 = <<>>
  /\ step = "start"

\* processTimelineExcelFile(file, XLSX) on a file with the content input
ProcessTimelineFile ==
  /\ step = "start"
  /\ out1' = processTimelineExcelFile(File("CS101", "xlsx"), input)
  /\ step' = "file"
  /\ UNCHANGED <<input, out2>>
  /\ UNCHANGED appVars

\* analyzeSheetStructure(jsonData) on the first sheet of the workbook
AnalyzeSheet ==
  /\ step = "start"
  /\ input # Unreadable
  /\ out1' = analyzeSheetStructure(input.SheetNames.items[1].rows)
  /\ step' = "analyze"
  /\ UNCHANGED <<input, out2>>
  /\ UNCHANGED appVars

NextTimelineFile == ProcessTimelineFile \/ AnalyzeSheet

SpecTimelineFile == InitTimelineFile /\ [][NextTimelineFile]_vars

\* the cell is text with a date literal in it
HasDateText(cell) ==
  cell.t = "string" /\ \E i \in 1..Len(cell.w) : cell.w[i].k = "d"

\* the row has a date, every date of it is before today, and no cell of it
\* names a due date
PastRowNoExplicit(row) ==
  /\ \E j \in DOMAIN row : row[j].t = "date"
  /\ \A j \in DOMAIN row :
       /\ row[j].t = "date" => DateLT(row[j].d, Today)
       /\ ~HasDateText(row[j])

\* C12: a timeline row dated strictly before today whose cells hold no
\* explicit due date produces no record: a workbook of such rows under a row
\* of column titles gives the empty list
C12_PastRowsGiveNothing ==
  /\ step = "file"
  /\ out1.ok
  /\ \A k \in 1..Len(input.SheetNames.items) :
       \A i \in 1..Len(input.SheetNames.items[k].rows) :
         \/ input.SheetNames.items[k].rows[i] = TitleRow
         \/ PastRowNoExplicit(input.SheetNames.items[k].rows[i])
  => out1.val = <<>>

\* the workbook is one sheet of the row of column titles and one row with a
\* date and a homework cell that names no date
OneUndatedHomework(book) ==
  /\ Len(book.SheetNames.items) = 1
  /\ Len(book.SheetNames.items[1].rows) = 2
  /\ book.SheetNames.items[1].rows[1] = TitleRow
  /\ DOMAIN book.SheetNames.items[1].rows[2] = DOMAIN TitleRow
  /\ book.SheetNames.items[1].rows[2][0].t = "date"
  /\ book.SheetNames.items[1].rows[2][2].t = "string"
  /\ ~HasDateText(book.SheetNames.items[1].rows[2][2])

\* C21: a homework cell that names no due date gives a homework record due
\* seven days after the date of its row
C21_HomeworkDueAfterSevenDays ==
  step = "file" /\ input # Unreadable /\ OneUndatedHomework(input) =>
    /\ out1.ok
    /\ \A i \in 1..Len(out1.val) :
         out1.val[i].type = Word("Homework") =>
           out1.val[i].dueDate
             = formatDate(DaysLater(input.SheetNames.items[1].rows[2][0], 7))


\* C30: analyzeSheetStructure records every column whose header holds "hw"
\* and "due" as a homework-due column and every column whose header holds
\* "p&c" and "due" as a P&C-due column
C30_DueColumnsRecorded ==
  step = "analyze" /\ input.SheetNames.items[1].rows # <<>> =>
    \A j \in DOMAIN input.SheetNames.items[1].rows[1] :
      /\ /\ Includes(HeaderText(input.SheetNames.items[1].rows[1][j]), "hw")
         /\ Includes(HeaderText(input.SheetNames.items[1].rows[1][j]), "due")
         => InSeq(out1.hwDueColumns, j)
      /\ /\ Includes(HeaderText(input.SheetNames.items[1].rows[1][j]), "p&c")
         /\ Includes(HeaderText(input.SheetNames.items[1].rows[1][j]), "due")
         => InSeq(out1.pcDueColumns, j)

(***************************************************************************)
(* The extraction of one file, applied to flat tables.                     *)
(***************************************************************************)
\* rows of a flat table: a due date, an assignment and a type
FlatRowSet ==
  {("Due Date" :> Str(<<D(12, 5, 2026, TRUE)>>)) @@ ("Assignment" :> Word("Essay"))
     @@ ("Type" :> Word("Quiz")),
   ("Due Date" :> Dec5) @@ ("Assignment" :> Str(<<W("Project"), N(1)>>))
     @@ ("Type" :> Word("Project")),
   ("Due Date" :> Oct1) @@ ("Assignment" :> Word("Essay")) @@ ("Type" :> Word("Quiz"))}

\* the same table as a CSV file and as the one sheet of an Excel file
ExtractInputs ==
  {[file |-> File("CS101", "csv"), content |-> Table(rows)] :
     rows \in SeqsUpTo(FlatRowSet \cup CsvRowSet, MaxRows)}
    \cup {[file |-> File("CS101", "xlsx"),
           content |-> Workbook(<<Sheet("Schedule", rows)>>)] :
            rows \in SeqsUpTo(FlatRowSet \cup CsvRowSet, MaxRows)}

\* the rows of the table of a file
TableRows(content) ==
  IF content.t = "table" THEN content.rows ELSE content.SheetNames.items[1].rows

InitExtract ==
  /\ AppIdle
  /\ input \in ExtractInputs
  /\ out1 = <<>>
  /\ out2 = <<>>
  /\ step = "start"

\* processExcelFile(file) or processCSVFile(file) of the first component
ExtractFile ==
  /\ step = "start"
  /\ out1' = FileResult(input.file, input.content)
  /\ step' = "app"
  /\ UNCHANGED <<input, out2>>
  /\ UNCHANGED appVars

\* processExcelFile(file) or processCSVFile(file) of the second component
ExtractFileAlt ==
  /\ step = "start"
  /\ out1' = IF fileType(input.file) = "csv"
               THEN processCSVFileAlt(input.file, input.content)
             ELSE processExcelFileAlt(input.file, input.content)
  /\ step' = "alt"
  /\ UNCHANGED <<input, out2>>
  /\ UNCHANGED appVars

\* the variant lists of processCSVFile
VariantLists ==
  {<<"Due Date", "Due", "Deadline", "Date">>,
   <<"Title", "Assignment", "Task", "Name">>,
   <<"Type", "Category">>}

\* findValueFromVariants(row, variants) of the first component, on the first
\* row of the table
FindValue ==
  /\ step = "start"
  /\ TableRows(input.content) # <<>>
  /\ \E variants \in VariantLists :
       /\ out1' = findValueFromVariants(TableRows(input.content)[1], variants)
       /\ out2' = variants
  /\ step' = "find"
  /\ UNCHANGED input
  /\ UNCHANGED appVars

\* findValueFromVariants(row, variants) of the second component
FindValueAlt ==
  /\ step = "start"
  /\ TableRows(input.content) # <<>>
  /\ \E variants \in VariantLists :
       /\ out1' = findValueAnyCase(TableRows(input.content)[1], variants)
       /\ out2' = variants
  /\ step' = "findalt"
  /\ UNCHANGED input
  /\ UNCHANGED appVars

NextExtract == ExtractFile \/ ExtractFileAlt \/ FindValue \/ FindValueAlt

SpecExtract == InitExtract /\ [][NextExtract]_vars

\* the table is one row of a due date later than today, an assignment and a
\* type
OneFlatRow(rows) ==
  /\ Len(rows) = 1
  /\ DOMAIN rows[1] = {"Due Date", "Assignment", "Type"}
  /\ IsDateText(rows[1]["Due Date"])
  /\ DateLT(Today, DayNamed(rows[1]["Due Date"]))

\* C16: a flat-table row with a future "Due Date" cell, an "Assignment" cell
\* and a "Type" cell gives one record, titled with the text of the Assignment
\* cell, due on that date written M/D/YYYY without padding, of the type of
\* the Type cell, from a CSV file and from an Excel sheet alike
C16_FlatRowRecord ==
  step \in {"app", "alt"} /\ OneFlatRow(TableRows(input.content)) =>
    /\ out1.ok
    /\ Len(out1.val) = 1
    /\ JSToString(out1.val[1].title)
         = JSToString(TableRows(input.content)[1]["Assignment"])
    /\ JSToString(out1.val[1].dueDate)
         = RenderTok([TableRows(input.content)[1]["Due Date"].w[1] EXCEPT !.pad = FALSE])
    /\ JSToString(out1.val[1].type)
         = JSToString(TableRows(input.content)[1]["Type"])

\* the cells of the row under a column named like the variant, whatever the
\* case of the letters
CellsNamed(row, name) ==
  {row[key] : key \in {k \in DOMAIN row : LowerCol(k) = LowerCol(name) /\ Filled(row[k])}}

\* C25: findValueFromVariants returns the cell of the first variant of the
\* list for which the row has a non-empty cell, the names of the columns
\* matched whatever their case, and null when no variant has one
C25_FirstVariantAnyCase ==
  step \in {"find", "findalt"} =>
    IF \A i \in 1..Len(out2) : CellsNamed(TableRows(input.content)[1], out2[i]) = {}
      THEN out1 = Null
    ELSE \E i \in 1..Len(out2) :
           /\ out1 \in CellsNamed(TableRows(input.content)[1], out2[i])
           /\ \A j \in 1..(i - 1) : CellsNamed(TableRows(input.content)[1], out2[j]) = {}

(***************************************************************************)
(* The export of the stored list: handleExport and the exporters it has in *)
(* scope.                                                                  *)
(***************************************************************************)
\* what a call of an exporter comes to: the files handed to downloadFile and
\* the value returned
Exported(downloads, result) == [downloads |-> downloads, result |-> result]

\* the exportToCSV of the component: no return statement
exportToCSV(data) ==
  IF data = <<>> THEN Exported(<<>>, Undef)
  ELSE Exported(<<"assignments_export.csv">>, Undef)

\* the exportToICS of the component, which hides the function of the same
\* name at the top of the file: the calendar is downloaded whatever the
\* number of its events, and nothing is returned
exportToICS(data) ==
  IF data = <<>> THEN Exported(<<>>, Undef)
  ELSE Exported(<<"assignments_calendar.ics">>, Undef)

ExportFormats == {"powerplanner", "ics", "csv"}

\* if (!success) setError(...)
ExportError(prev, exported, message) ==
  IF ~Truthy(exported.result) THEN ErrorText(<<Line(message, "", "")>>) ELSE prev

\* the lists of records the export button is clicked on, and the error shown
\* before the click
ExportLists ==
  SeqsUpTo({r \in SampleRecords : r.type = Word("Homework")}, MaxLen)
ExportErrors ==
  {Null, ErrorText(<<Line("Error processing ", "notes.txt", "Unsupported")>>)}

InitExport ==
  /\ files = <<>>
  /\ extractedData \in ExportLists
  /\ isProcessing = FALSE
  /\ error \in ExportErrors
  /\ pc = "idle"
  /\ fileIdx = 0
  /\ allAssignments = <<>>
  /\ processingErrors = <<>>
  /\ runFiles = <<>>
  /\ variant = "app"
  /\ log = <<>>
  /\ input = error
  /\ out1 = <<>>
  /\ out2 = <<>>
  /\ step = "start"

\* a click on the export button: out1 is the list of the files downloaded,
\* out2 the format chosen
handleExport ==
  /\ step = "start"
  /\ extractedData # <<>>
  /\ \E exportFormat \in ExportFormats :
       /\ out2' = exportFormat
       /\ CASE exportFormat = "powerplanner" ->
                 /\ out1' = <<>>
                 /\ UNCHANGED error
            [] exportFormat = "ics" ->
                 /\ out1' = exportToICS(extractedData).downloads
                 /\ error' = ExportError(error, exportToICS(extractedData),
                        "Failed to export ICS file: No valid assignments found")
            [] exportFormat = "csv" ->
                 /\ out1' = exportToCSV(extractedData).downloads
                 /\ error' = ExportError(error, exportToCSV(extractedData),
                        "Failed to export CSV file: No valid assignments found")
  /\ step' = "export"
  /\ UNCHANGED <<files, extractedData, isProcessing, pc, fileIdx, allAssignments,
                 processingErrors, runFiles, variant, log, input>>

NextExport == handleExport

SpecExport == InitExport /\ [][NextExport]_vars

\* C29: handleExport changes the error only when the exporter it called
\* downloaded no file: after an export to ICS or CSV that downloaded a file
\* the error is the one shown before the click
C29_ErrorOnlyWithoutFile ==
  step = "export" /\ out2 \in {"ics", "csv"} /\ out1 # <<>> => error = input

====
